---- MODULE Spec2Model ----
(***************************************************************************)
(* Commission automation: the expense reconciler (Cheltuieli table) and    *)
(* the P&L aggregator (P&L table) driven by the hourly cron run and the    *)
(* HTTP triggers.                                                          *)
(*                                                                         *)
(* Amounts are integers in bani (1 RON = 100 bani), so that                *)
(* Math.round(x * 100) / 100 is rounding to a whole number of bani.        *)
(* A period key "Luna YYYY" is the pair [month, year] that                 *)
(* monthYear.split(' ') and parseInt yield.  An expense ID built as        *)
(* `kind_a_b` is the tuple <<kind, a, b>> of its interpolated parts.       *)
(* Every awaited record-store call is one step of a run, so that runs      *)
(* started by different triggers interleave exactly at the awaits.         *)
(***************************************************************************)
EXTENDS Integers, Sequences, FiniteSets, TLC

(***************************************************************************)
(* Bounds of the model                                                     *)
(***************************************************************************)
MaxRuns == 2        \* invocations that may be in progress at the same time
MaxStarts == 2      \* triggers fired in one behaviour
MaxFailures == 1    \* record-store calls that fail after all retries
MaxChanges == 1     \* upstream edits of the input tables

(***************************************************************************)
(* Program constants                                                       *)
(***************************************************************************)
ROMANIAN_MONTHS ==
  <<"Ianuarie", "Februarie", "Martie", "Aprilie", "Mai", "Iunie", "Iulie",
    "August", "Septembrie", "Octombrie", "Noiembrie", "Decembrie">>

SOURCE == [AUTOMATIC |-> "Automat", MANUAL |-> "Manual"]

EXPENSE_CATEGORIES ==
  [REPRESENTATIVES |-> "Reprezentanti", CALLER |-> "Caller",
   SETTER |-> "Setter", TEAM_LEADER |-> "Team Leader",
   TAXE_IMPOZITE |-> "Taxe & Impozite"]

\* rates in percent
TEAM_LEADERS ==
  [SETTER |-> [name |-> "George Coapsi", commissionRate |-> 5,
               category |-> "Team Leader"],
   CALLER |-> [name |-> "Alexandru Prisiceanu", commissionRate |-> 2,
               category |-> "Team Leader"]]

STRIPE == [feeRate |-> 2]

PNL_CATEGORIES ==
  [PNL |-> "P&L", REPREZENTANTI |-> "Reprezentanti",
   TEAM_LEADERS |-> "TeamLeaders", TAXE_IMPOZITE |-> "Taxe & Impozite"]

PNL_SUMMARY_RECORDS ==
  [INCASARI |-> "INCASARI", TOTAL_CHELTUIELI |-> "TOTAL CHELTUIELI",
   TOTAL_PROFIT |-> "TOTAL PROFIT", MARJA_PROFIT |-> "MARJA PROFIT"]

\* the clock of the process: new Date() read by getCurrentRomanianMonth/Year
CurrentMonth == "Octombrie"
CurrentYear == 2025

(***************************************************************************)
(* The universe of input records                                           *)
(***************************************************************************)
ProjectSeq == <<"P1", "P2">>
SaleSeq == <<"s1", "s2", "s3">>
CommissionSeq == <<"c0", "c1", "c2", "c3">>

Period(m, y) == [month |-> m, year |-> y]
NoTarget == Period("", 0)          \* targetMonthYear = null

\* Vanzari: s1, s2 are sales of Octombrie 2025, s3 a sale of Octombrie 2024
InitSales ==
  [s \in {"s1", "s2", "s3"} |->
     CASE s = "s1" -> [project |-> "P1", totalAmount |-> 1000,
                       amountWithoutVat |-> 840,
                       monthYear |-> Period("Octombrie", 2025), stripe |-> TRUE]
       [] s = "s2" -> [project |-> "P2", totalAmount |-> 2000,
                       amountWithoutVat |-> 1685,
                       monthYear |-> Period("Octombrie", 2025), stripe |-> FALSE]
       [] s = "s3" -> [project |-> "P1", totalAmount |-> 3000,
                       amountWithoutVat |-> 2520,
                       monthYear |-> Period("Octombrie", 2024), stripe |-> TRUE]]

\* Comisioane Lunare: the records carry a month name and no year
InitCommissions ==
  [c \in {"c0", "c1", "c2", "c3"} |->
     CASE c = "c0" -> [name |-> "Rep One", representative |-> "r1",
                       month |-> "Septembrie", finalCommission |-> -1000,
                       sales |-> {}, role |-> "Sales", setterCallerSum |-> 0]
       [] c = "c1" -> [name |-> "Rep One", representative |-> "r1",
                       month |-> "Octombrie", finalCommission |-> 10000,
                       sales |-> {"s1", "s2"}, role |-> "Sales",
                       setterCallerSum |-> 0]
       [] c = "c2" -> [name |-> "Rep One", representative |-> "r1",
                       month |-> "Noiembrie", finalCommission |-> -2000,
                       sales |-> {}, role |-> "Sales", setterCallerSum |-> 0]
       [] c = "c3" -> [name |-> "Caller One", representative |-> "r2",
                       month |-> "Octombrie", finalCommission |-> 500,
                       sales |-> {"s2"}, role |-> "Caller",
                       setterCallerSum |-> 500]]

(***************************************************************************)
(* Arithmetic helpers                                                      *)
(***************************************************************************)
RECURSIVE SumSeq(_)
SumSeq(s) == IF s = <<>> THEN 0 ELSE Head(s) + SumSeq(Tail(s))

RECURSIVE Flatten(_)
Flatten(ss) == IF ss = <<>> THEN <<>> ELSE Head(ss) \o Flatten(Tail(ss))

Abs(x) == IF x < 0 THEN -x ELSE x

\* Math.round(n / d * 100) / 100 on amounts in bani: floor(n / d + 1/2)
RoundDiv(n, d) == (2 * n + d) \div (2 * d)

MonthIndex(m) == CHOOSE i \in 1..Len(ROMANIAN_MONTHS) : ROMANIAN_MONTHS[i] = m

isValidExpenseAmount(amount) == amount > 0

isValidProject(project) == project # ""

VARIABLES
  sales,        \* Vanzari table: sale id -> fields
  commissions,  \* Comisioane Lunare table: record id -> fields
  expenses,     \* Cheltuieli table: sequence of records, index = record id
  pnl,          \* P&L table: sequence of lines, index = record id
  runs,         \* run slot -> state of the invocation occupying it
  starts,       \* triggers fired so far
  fails,        \* record-store calls that failed after all retries so far
  changes,      \* upstream edits so far
  baseline,     \* tables left by the last undisturbed full run, or NoBaseline
  limits,       \* what is explored: overlapping runs, or failures and edits
  calc          \* the last calculation applied on its own: inputs and output

vars == <<sales, commissions, expenses, pnl, runs, starts, fails, changes,
          baseline, limits, calc>>

NoCalc == [op |-> "none"]

\* Two triggers are explored either overlapping and undisturbed over the
\* small input tables, or one after the other over the full input tables with
\* failing record-store calls and upstream edits, or one after the other over
\* the small input tables with failing calls and the process shut down, or
\* one after the other over the small input tables and an expense table that
\* holds a record entered by hand.
Limits ==
  { [overlap |-> TRUE, fails |-> 0, changes |-> 0, shutdown |-> FALSE,
     manual |-> FALSE],
    [overlap |-> FALSE, fails |-> MaxFailures, changes |-> MaxChanges,
     shutdown |-> FALSE, manual |-> FALSE],
    [overlap |-> FALSE, fails |-> MaxFailures, changes |-> 0,
     shutdown |-> TRUE, manual |-> FALSE],
    [overlap |-> FALSE, fails |-> 0, changes |-> 0, shutdown |-> FALSE,
     manual |-> TRUE] }

RunIds == 1..MaxRuns

\* edited: the input records edited since the tables were left
\* stopped: the last run was a full run over all periods that stopped before
\* finishing
NoBaseline ==
  [set |-> FALSE, expenses |-> <<>>, pnl |-> <<>>, edited |-> {},
   stopped |-> FALSE]

\* what the lookup of the head item returned: not awaited yet, a record id, or
\* null (no record, or the read failed after all retries)
Unread == [st |-> "unread", id |-> 0]
Hit(i) == [st |-> "hit", id |-> i]
Null == [st |-> "null", id |-> 0]
Failed == [st |-> "failed", id |-> 0]

IdleRun ==
  [active |-> FALSE, full |-> FALSE, target |-> NoTarget, kind |-> "idle",
   planned |-> FALSE, periods |-> <<>>, todo |-> <<>>, found |-> Unread,
   created |-> 0, updated |-> 0, skipped |-> 0, errors |-> 0,
   log |-> <<>>, solo |-> FALSE, clean |-> FALSE, base |-> NoBaseline,
   ran |-> {}, threw |-> FALSE]

\* one Stripe sale and no commission record
SmallSales == [s \in {"s1"} |-> InitSales[s]]

SmallCommissions == [c \in {} |-> InitCommissions[c]]

\* a record a person entered in Cheltuieli (Sursa = Manual): a correction of
\* the Stripe fee of P1.  Its ID field is empty, or holds the ID of the record
\* it was duplicated from.
ManualExpenses ==
  {[key |-> k,
    description |-> [text |-> "Corectie comision Stripe", month |-> "",
                     count |-> 0, total |-> 0],
    project |-> "P1", category |-> EXPENSE_CATEGORIES.TAXE_IMPOZITE,
    amount |-> 700, month |-> "Octombrie", year |-> 2025,
    source |-> SOURCE.MANUAL] :
     k \in {<<>>, <<"stripe", "P1", "Octombrie">>}}

Init ==
  /\ limits \in Limits
  /\ sales = IF limits.overlap \/ limits.shutdown \/ limits.manual
                THEN SmallSales ELSE InitSales
  /\ commissions = IF limits.overlap \/ limits.shutdown \/ limits.manual
                      THEN SmallCommissions ELSE InitCommissions
  /\ expenses \in IF limits.manual THEN {<<m>> : m \in ManualExpenses}
                                    ELSE {<<>>}
  /\ pnl = <<>>
  /\ runs = [r \in RunIds |-> IdleRun]
  /\ starts = 0
  /\ fails = 0
  /\ changes = 0
  /\ baseline = NoBaseline
  /\ calc = NoCalc

\* the records of the input tables, in table order
Vanzari == SelectSeq(SaleSeq, LAMBDA s : s \in DOMAIN sales)

ComisioaneLunare == SelectSeq(CommissionSeq, LAMBDA c : c \in DOMAIN commissions)

(***************************************************************************)
(* Reads of the input tables.  The input tables are edited upstream only   *)
(* while no run is in progress (ChangeInput), so what a run reads from     *)
(* them is the same wherever in the run the read is awaited.               *)
(***************************************************************************)
\* unique month names of Comisioane Lunare, in calendar order
getAllMonthsWithCommissions ==
  SelectSeq(ROMANIAN_MONTHS,
            LAMBDA m : \E c \in DOMAIN commissions : commissions[c].month = m)

\* unique month-years of Vanzari, oldest first
AllPeriods == <<Period("Octombrie", 2024), Period("Octombrie", 2025)>>

getAllMonthYearsFromSales ==
  SelectSeq(AllPeriods,
            LAMBDA my : \E s \in DOMAIN sales : sales[s].monthYear = my)

getMonthlyCommissions(month) ==
  SelectSeq(ComisioaneLunare,
            LAMBDA c : /\ commissions[c].month = month
                       /\ commissions[c].role = "Sales")

getMonthlySetterCallerCommissions(month) ==
  SelectSeq(ComisioaneLunare,
            LAMBDA c : /\ commissions[c].month = month
                       /\ commissions[c].role \in {"Caller", "Setter"}
                       /\ commissions[c].setterCallerSum > 0)

getSalesByIds(saleIds) == SelectSeq(Vanzari, LAMBDA s : s \in saleIds)

getRepresentativeDebts(representativeId, currentMonth) ==
  SelectSeq(ComisioaneLunare,
            LAMBDA d : /\ commissions[d].representative = representativeId
                       /\ commissions[d].finalCommission < 0
                       /\ commissions[d].month # currentMonth)

getStripePayments(monthYear) ==
  SelectSeq(Vanzari,
            LAMBDA s : /\ sales[s].monthYear = monthYear
                       /\ sales[s].stripe
                       /\ sales[s].totalAmount > 0)

(***************************************************************************)
(* Records of the Cheltuieli table and the upsert items a run derives      *)
(***************************************************************************)
\* a description text: its fixed wording, the month name it mentions, and the
\* count and the total it quotes
Description(text, month, count, total) ==
  [text |-> text, month |-> month, count |-> count, total |-> total]

Expense(key, description, project, category, amount, month, year) ==
  [key |-> key, description |-> description, project |-> project,
   category |-> category, amount |-> amount, month |-> month, year |-> year,
   source |-> SOURCE.AUTOMATIC]

\* one pending lookup-then-write.  For a sales-rep item: the commission record
\* it allocates, the aggregate amount A that is allocated across the projects,
\* the debts the debt read returned and whether that read failed.
Item(kind, A, rec) ==
  [kind |-> kind, table |-> "exp", A |-> A, rec |-> rec,
   commission |-> "", debts |-> <<>>, debtsFailed |-> FALSE]

\* what one kind hands to the run: the pending upserts, what it counted
\* without an upsert, and whether it threw once those upserts were done
NoItems == [items |-> <<>>, skipped |-> 0, errors |-> 0, threw |-> FALSE]

Thrown == [NoItems EXCEPT !.threw = TRUE]

(***************************************************************************)
(* Sales-rep commissions                                                   *)
(***************************************************************************)
SalesRepValidSales(c) ==
  SelectSeq(getSalesByIds(commissions[c].sales),
            LAMBDA s : /\ isValidProject(sales[s].project)
                       /\ sales[s].totalAmount > 0)

SalesRepGroupAmount(c, project) ==
  LET g == SelectSeq(SalesRepValidSales(c),
                     LAMBDA s : sales[s].project = project)
  IN  SumSeq([i \in 1..Len(g) |-> sales[g[i]].totalAmount])

\* variant: a group for every project of a linked sale, whatever its amount
SalesRepProjects_AnyAmount(c) ==
  SelectSeq(ProjectSeq,
            LAMBDA p : \E s \in commissions[c].sales \cap DOMAIN sales :
                         sales[s].project = p)

SalesRepProjects(c) ==
  SelectSeq(ProjectSeq, LAMBDA p : SalesRepGroupAmount(c, p) > 0)

\* debts: the list getRepresentativeDebts returned to the caller
TotalDebt(debts) ==
  Abs(SumSeq([i \in 1..Len(debts) |-> commissions[debts[i]].finalCommission]))

NetCommission(c, debts) ==
  IF debts # <<>> THEN commissions[c].finalCommission - TotalDebt(debts)
                  ELSE commissions[c].finalCommission

\* netCommission * (group.totalAmount / totalSalesAmount), rounded to 2
\* decimals.  netCommission is given in 1/unit bani; the result is in bani.
roundedAllocation_Truncated(netCommission, unit, groupAmount, totalSalesAmount) ==
  IF totalSalesAmount > 0
    THEN (netCommission * groupAmount) \div (unit * totalSalesAmount)
    ELSE 0

roundedAllocation(netCommission, unit, groupAmount, totalSalesAmount) ==
  IF totalSalesAmount > 0
    THEN RoundDiv(netCommission * groupAmount, unit * totalSalesAmount)
    ELSE 0

\* variant: only a strictly negative net commission is skipped
processSalesRepCommission_NegativeOnly(c, month, year, debts, debtsFailed, salesFailed) ==
  LET netCommission == NetCommission(c, debts)
      projects == SalesRepProjects(c)
      totalSalesAmount ==
        SumSeq([i \in 1..Len(projects) |-> SalesRepGroupAmount(c, projects[i])])
      expense(project) ==
        Expense(<<"commission", c, project>>,
                Description(commissions[c].name, month, 0, 0), project,
                EXPENSE_CATEGORIES.REPRESENTATIVES,
                roundedAllocation(netCommission, 1,
                                  SalesRepGroupAmount(c, project),
                                  totalSalesAmount),
                month, year)
  IN  IF ~isValidExpenseAmount(commissions[c].finalCommission)
        THEN [NoItems EXCEPT !.skipped = 1]
      ELSE IF debts # <<>> /\ netCommission < 0 THEN [NoItems EXCEPT !.skipped = 1]
      ELSE IF commissions[c].sales = {} THEN [NoItems EXCEPT !.skipped = 1]
      ELSE IF salesFailed THEN Thrown
      ELSE IF projects = <<>> THEN [NoItems EXCEPT !.skipped = 1]
      ELSE [NoItems EXCEPT
              !.items = [i \in 1..Len(projects) |->
                           [Item("salesRep", netCommission, expense(projects[i]))
                              EXCEPT !.commission = c, !.debts = debts,
                                     !.debtsFailed = debtsFailed]]]

\* salesFailed: getSalesByIds fails after all retries and throws
processSalesRepCommission(c, month, year, debts, debtsFailed, salesFailed) ==
  LET finalCommission == commissions[c].finalCommission
      netCommission == NetCommission(c, debts)
      projects == SalesRepProjects(c)
      totalSalesAmount ==
        SumSeq([i \in 1..Len(projects) |-> SalesRepGroupAmount(c, projects[i])])
      expense(project) ==
        Expense(<<"commission", c, project>>,
                Description(commissions[c].name, month, 0, 0), project,
                EXPENSE_CATEGORIES.REPRESENTATIVES,
                roundedAllocation(netCommission, 1,
                                  SalesRepGroupAmount(c, project),
                                  totalSalesAmount),
                month, year)
  IN  IF ~isValidExpenseAmount(finalCommission) THEN [NoItems EXCEPT !.skipped = 1]
      ELSE IF debts # <<>> /\ netCommission <= 0 THEN [NoItems EXCEPT !.skipped = 1]
      ELSE IF commissions[c].sales = {} THEN [NoItems EXCEPT !.skipped = 1]
      ELSE IF salesFailed THEN Thrown
      ELSE IF getSalesByIds(commissions[c].sales) = <<>>
        THEN [NoItems EXCEPT !.skipped = 1]
      ELSE IF projects = <<>> THEN [NoItems EXCEPT !.skipped = 1]
      ELSE [NoItems EXCEPT
              !.items = [i \in 1..Len(projects) |->
                           [Item("salesRep", netCommission, expense(projects[i]))
                              EXCEPT !.commission = c, !.debts = debts,
                                     !.debtsFailed = debtsFailed]]]

\* the commissions for which the run reaches the debt read
ReachesDebtRead(c) ==
  /\ isValidExpenseAmount(commissions[c].finalCommission)
  /\ commissions[c].representative # ""

\* failed: the commissions whose debt read failed after all retries ([] returned)
DebtsRead(c, month, failed) ==
  IF ReachesDebtRead(c) /\ c \notin failed
    THEN getRepresentativeDebts(commissions[c].representative, month)
    ELSE <<>>

\* the commissions for which the run reaches the read of the linked sales
ReachesSalesRead(c, month, failed) ==
  /\ isValidExpenseAmount(commissions[c].finalCommission)
  /\ ~(/\ DebtsRead(c, month, failed) # <<>>
       /\ NetCommission(c, DebtsRead(c, month, failed)) <= 0)
  /\ commissions[c].sales # {}

\* salesFailed: the commissions whose sales read throws; the throw is caught
\* per commission and counted in errors
processSalesRepCommissionsForMonth(month, failed, salesFailed) ==
  LET year == CurrentYear
      cs == getMonthlyCommissions(month)
      res == [i \in 1..Len(cs) |->
                processSalesRepCommission(cs[i], month, year,
                                          DebtsRead(cs[i], month, failed),
                                          cs[i] \in failed,
                                          cs[i] \in salesFailed)]
  IN  [NoItems EXCEPT
         !.items = Flatten([i \in 1..Len(cs) |-> res[i].items]),
         !.skipped = SumSeq([i \in 1..Len(cs) |-> res[i].skipped]),
         !.errors = SumSeq([i \in 1..Len(cs) |->
                              IF res[i].threw THEN 1 ELSE res[i].errors])]

\* the first index of s whose element is x, or Len(s) + 1
IndexOf(s, x) ==
  IF \E i \in 1..Len(s) : s[i] = x
    THEN CHOOSE i \in 1..Len(s) : s[i] = x /\ \A j \in 1..(i - 1) : s[j] # x
    ELSE Len(s) + 1

\* badMonth: the month whose getMonthlyCommissions fails after all retries
\* ("" for none); the throw leaves the loop over the months
processSalesRepCommissions(targetMonthYear, failed, salesFailed, badMonth) ==
  LET all == getAllMonthsWithCommissions
      months == IF targetMonthYear # NoTarget
                  THEN SelectSeq(all, LAMBDA m : m = targetMonthYear.month)
                  ELSE all
      reached == SubSeq(months, 1, IndexOf(months, badMonth) - 1)
      res == [i \in 1..Len(reached) |->
                processSalesRepCommissionsForMonth(reached[i], failed,
                                                   salesFailed)]
  IN  [items |-> Flatten([i \in 1..Len(reached) |-> res[i].items]),
       skipped |-> SumSeq([i \in 1..Len(reached) |-> res[i].skipped]),
       errors |-> SumSeq([i \in 1..Len(reached) |-> res[i].errors]),
       threw |-> Len(reached) < Len(months)]

(***************************************************************************)
(* Team-leader commissions (current month only).  The team leaders have no *)
(* entry in the Reprezentanti directory of this universe, so               *)
(* createOrUpdateTeamLeaderMonthlyCommission returns without writing.      *)
(***************************************************************************)
TeamLeaderType(c) == IF commissions[c].role = "Setter" THEN "Setter" ELSE "Caller"

TeamLeaderConfig(type) ==
  IF type = "Setter" THEN TEAM_LEADERS.SETTER ELSE TEAM_LEADERS.CALLER

\* the sales that count for the team leader of `type` in `project`
TeamLeaderSales(month, type, project) ==
  LET cs == SelectSeq(getMonthlySetterCallerCommissions(month),
                      LAMBDA c : /\ commissions[c].sales # {}
                                 /\ TeamLeaderType(c) = type)
      per == [i \in 1..Len(cs) |->
                SelectSeq(getSalesByIds(commissions[cs[i]].sales),
                          LAMBDA s : /\ isValidProject(sales[s].project)
                                     /\ sales[s].project = project)]
  IN  Flatten(per)

createOrUpdateTeamLeaderExpense(type, project, month, year) ==
  LET ss == TeamLeaderSales(month, type, project)
      cfg == TeamLeaderConfig(type)
      \* sum of amountWithoutVat * rate, then Math.round(total * 100) / 100
      roundedCommission ==
        RoundDiv(cfg.commissionRate *
                   SumSeq([i \in 1..Len(ss) |-> sales[ss[i]].amountWithoutVat]),
                 100)
      salesCount ==
        Len(SelectSeq(ss, LAMBDA s : sales[s].amountWithoutVat >= 0))
  IN  IF ~isValidExpenseAmount(roundedCommission) THEN <<>>
      ELSE << Item("teamLeader", roundedCommission,
                   Expense(<<"team_leader", type, project, month>>,
                           Description("Teamleader " \o type \o ": " \o cfg.name,
                                       "", salesCount, 0),
                           project, cfg.category, roundedCommission,
                           month, year)) >>

TeamLeaderGroups(month) ==
  LET keys == <<  <<"Setter", ProjectSeq[1]>>, <<"Setter", ProjectSeq[2]>>,
                  <<"Caller", ProjectSeq[1]>>, <<"Caller", ProjectSeq[2]>> >>
  IN  SelectSeq(keys, LAMBDA k : TeamLeaderSales(month, k[1], k[2]) # <<>>)

processTeamLeaderCommissions ==
  LET month == CurrentMonth
      year == CurrentYear
      grouped == TeamLeaderGroups(month)
  IN  [NoItems EXCEPT
         !.items = Flatten([i \in 1..Len(grouped) |->
                     createOrUpdateTeamLeaderExpense(grouped[i][1],
                                                     grouped[i][2],
                                                     month, year)])]

(***************************************************************************)
(* Stripe fees                                                             *)
(***************************************************************************)
StripeGroup(monthYear, project) ==
  SelectSeq(getStripePayments(monthYear),
            LAMBDA s : /\ isValidProject(sales[s].project)
                       /\ sales[s].project = project)

createOrUpdateStripeExpense(monthYear, project) ==
  LET g == StripeGroup(monthYear, project)
      totalProcessed == SumSeq([i \in 1..Len(g) |-> sales[g[i]].totalAmount])
      \* sum of totalAmount * feeRate, then Math.round(total * 100) / 100
      roundedFee == RoundDiv(STRIPE.feeRate * totalProcessed, 100)
  IN  IF ~isValidExpenseAmount(roundedFee) THEN <<>>
      ELSE << Item("stripe", roundedFee,
                   Expense(<<"stripe", project, monthYear.month>>,
                           Description("Comision procesare plati Stripe - "
                                         \o project, "", Len(g), totalProcessed),
                           project, EXPENSE_CATEGORIES.TAXE_IMPOZITE,
                           roundedFee, monthYear.month, monthYear.year)) >>

processStripeFeesForMonthYear(monthYear) ==
  LET projects == SelectSeq(ProjectSeq,
                            LAMBDA p : StripeGroup(monthYear, p) # <<>>)
  IN  Flatten([i \in 1..Len(projects) |->
                 createOrUpdateStripeExpense(monthYear, projects[i])])

\* badMonthYear: the period whose getStripePayments fails after all retries
\* (NoTarget for none); the throw leaves the loop over the periods
processStripeFees(targetMonthYear, badMonthYear) ==
  LET all == getAllMonthYearsFromSales
      monthYears == IF targetMonthYear # NoTarget
                      THEN SelectSeq(all, LAMBDA my : my = targetMonthYear)
                      ELSE all
      reached == SubSeq(monthYears, 1, IndexOf(monthYears, badMonthYear) - 1)
  IN  [NoItems EXCEPT
         !.items = Flatten([i \in 1..Len(reached) |->
                     processStripeFeesForMonthYear(reached[i])]),
         !.threw = Len(reached) < Len(monthYears)]


(***************************************************************************)
(* P&L aggregation                                                         *)
(***************************************************************************)
getSalesByProject(month, year, project) ==
  LET g == SelectSeq(Vanzari,
                     LAMBDA s : /\ sales[s].monthYear = Period(month, year)
                                /\ sales[s].project = project)
  IN  [total |-> SumSeq([i \in 1..Len(g) |-> sales[g[i]].totalAmount]),
       count |-> Len(g)]

mapExpenseCategoryToPNL(expenseCategory) ==
  CASE expenseCategory = EXPENSE_CATEGORIES.REPRESENTATIVES ->
         PNL_CATEGORIES.REPREZENTANTI
    [] expenseCategory = EXPENSE_CATEGORIES.TEAM_LEADER ->
         PNL_CATEGORIES.TEAM_LEADERS
    [] expenseCategory = EXPENSE_CATEGORIES.TAXE_IMPOZITE ->
         PNL_CATEGORIES.TAXE_IMPOZITE
    [] OTHER -> ""

\* the record ids of the automatic expenses of the period and project
getExpensesByProject(month, year, project) ==
  SelectSeq([i \in 1..Len(expenses) |-> i],
            LAMBDA i : /\ expenses[i].month = month
                       /\ expenses[i].year = year
                       /\ expenses[i].source = SOURCE.AUTOMATIC
                       /\ expenses[i].project = project
                       /\ expenses[i].category # ""
                       /\ mapExpenseCategoryToPNL(expenses[i].category) # "")

PnLLine(cheltuiala, project, month, year, category, suma, description) ==
  [cheltuiala |-> cheltuiala, project |-> project, month |-> month,
   year |-> year, category |-> category, suma |-> suma,
   description |-> description]

PnLItem(line) ==
  [kind |-> "pnl", table |-> "pnl", A |-> 0, rec |-> line,
   commission |-> "", debts |-> <<>>, debtsFailed |-> FALSE]

\* the name of the P&L line of one expense
CheltuialaName(e) ==
  IF e.category = EXPENSE_CATEGORIES.TAXE_IMPOZITE
    THEN Description("Stripe", "", 0, 0)
    ELSE e.description

\* profit / revenue * 100 with two decimals, in hundredths of a percent
MarginPercent(revenue, profitRON) ==
  IF revenue > 0 THEN RoundDiv(profitRON * 10000, revenue) ELSE 0

\* suma: <<x>> for an amount, <<>> for null
createPNLSummaryRecords(project, month, year, revenue, exps) ==
  LET totalExpensesRON == SumSeq([i \in 1..Len(exps) |-> exps[i].amount])
      profitRON == revenue - totalExpensesRON
      marginPercent == MarginPercent(revenue, profitRON)
  IN  << PnLItem(PnLLine(Description(PNL_SUMMARY_RECORDS.TOTAL_CHELTUIELI, "", 0, 0),
                         project, month, year, PNL_CATEGORIES.PNL,
                         <<totalExpensesRON>>,
                         Description("Total cheltuieli pentru " \o project,
                                     "", 0, 0))),
         PnLItem(PnLLine(Description(PNL_SUMMARY_RECORDS.TOTAL_PROFIT, "", 0, 0),
                         project, month, year, PNL_CATEGORIES.PNL,
                         <<profitRON>>,
                         Description("Profit pentru " \o project, "", 0, 0))),
         PnLItem(PnLLine(Description(PNL_SUMMARY_RECORDS.MARJA_PROFIT, "", 0, 0),
                         project, month, year, PNL_CATEGORIES.PNL,
                         <<>>,
                         Description("Marja profit % pentru " \o project,
                                     "", marginPercent, 0))) >>

createOrUpdatePNLRecords(project, month, year, revenue, salesCount, exps) ==
  << PnLItem(PnLLine(Description(PNL_SUMMARY_RECORDS.INCASARI, "", 0, 0),
                     project, month, year, PNL_CATEGORIES.PNL, <<revenue>>,
                     Description("vanzari verificate", "", salesCount, 0))) >>
  \o [i \in 1..Len(exps) |->
        PnLItem(PnLLine(CheltuialaName(exps[i]), project, month, year,
                        mapExpenseCategoryToPNL(exps[i].category),
                        <<exps[i].amount>>, exps[i].description))]
  \o createPNLSummaryRecords(project, month, year, revenue, exps)

processPNLForMonthYear(monthYear) ==
  LET month == monthYear.month
      year == monthYear.year
      allProjects ==
        SelectSeq(ProjectSeq,
                  LAMBDA p : \/ getSalesByProject(month, year, p).count > 0
                             \/ getExpensesByProject(month, year, p) # <<>>)
      records(p) ==
        LET ids == getExpensesByProject(month, year, p)
        IN  createOrUpdatePNLRecords(
              p, month, year, getSalesByProject(month, year, p).total,
              getSalesByProject(month, year, p).count,
              [i \in 1..Len(ids) |-> expenses[ids[i]]])
  IN  Flatten([i \in 1..Len(allProjects) |-> records(allProjects[i])])

(***************************************************************************)
(* The runs                                                                *)
(***************************************************************************)
NoOtherActive(r) == \A q \in RunIds \ {r} : ~runs[q].active

\* a trigger takes the lowest free slot
FreeSlot(r) ==
  /\ ~runs[r].active
  /\ \A q \in RunIds : q < r => runs[q].active

\* processCommissions awaits the kinds in order.  The input tables of this
\* universe hold no sale with a setter/caller campaign, no ad spend and no
\* copywriting basis, so processSetterCallerCommissions, processFacebookAds
\* and processCopywritingCommissions reach no expense lookup and write nothing.
NextKind(kind) ==
  CASE kind = "salesRep" -> "teamLeader"
    [] kind = "teamLeader" -> "stripe"
    [] kind = "stripe" -> "pnl"
    [] OTHER -> "done"

\* where the run stands once its pending items are (or are not yet) dealt with
\* a kind that threw is caught by the one try/catch around the whole run
Settle(run) ==
  IF run.todo # <<>> THEN run
  ELSE IF run.threw THEN [run EXCEPT !.kind = "done"]
  ELSE IF run.kind = "pnl"
    THEN IF run.periods # <<>> THEN run ELSE [run EXCEPT !.kind = "done"]
    ELSE [run EXCEPT !.kind = NextKind(run.kind), !.planned = FALSE]

StartRun(r, full, target) ==
  /\ starts < MaxStarts
  /\ FreeSlot(r)
  /\ limits.overlap \/ NoOtherActive(r)
  /\ starts' = starts + 1
  /\ runs' = [q \in RunIds |->
                IF q = r
                  THEN [IdleRun EXCEPT
                          !.active = TRUE, !.full = full, !.target = target,
                          !.kind = IF full THEN "salesRep" ELSE "pnl",
                          !.solo = NoOtherActive(r), !.clean = TRUE,
                          !.base = IF NoOtherActive(r) THEN baseline
                                                       ELSE NoBaseline]
                  ELSE [runs[q] EXCEPT !.solo = FALSE, !.base = NoBaseline]]
  /\ UNCHANGED <<sales, commissions, expenses, pnl, fails, changes, baseline,
                 limits, calc>>

\* cron.schedule callback: await processCommissions()
CronTick(r) == StartRun(r, TRUE, NoTarget)

\* POST /refresh/all: processCommissions() in the background
RefreshAll(r) == StartRun(r, TRUE, NoTarget)

\* POST /refresh/month with a valid monthYear: processCommissions(monthYear)
RefreshMonth(r, monthYear) == StartRun(r, TRUE, monthYear)

\* POST /webhook/cheltuieli-created: processPNL()
CheltuieliCreated(r) == StartRun(r, FALSE, NoTarget)

PlanStep(r, plan) ==
  runs' = [runs EXCEPT ![r] =
             Settle([@ EXCEPT !.planned = TRUE, !.todo = plan.items,
                              !.skipped = @ + plan.skipped,
                              !.errors = @ + plan.errors,
                              !.ran = @ \cup {runs[r].kind},
                              !.threw = plan.threw,
                              !.clean = @ /\ ~plan.threw /\ plan.errors = 0])]

\* processSalesRepCommissions: the reads up to the first expense lookup
PlanSalesRep(r) ==
  /\ runs[r].active /\ runs[r].kind = "salesRep" /\ ~runs[r].planned
  /\ \E failed \in SUBSET {c \in DOMAIN commissions : ReachesDebtRead(c)},
        salesFailed \in SUBSET DOMAIN commissions,
        badMonth \in {""} \cup {commissions[c].month : c \in DOMAIN commissions} :
       LET n == Cardinality(failed) + Cardinality(salesFailed)
                  + (IF badMonth = "" THEN 0 ELSE 1)
       IN  /\ \A c \in salesFailed :
                ReachesSalesRead(c, commissions[c].month, failed)
           /\ fails + n <= limits.fails
           /\ fails' = fails + n
           /\ LET plan == processSalesRepCommissions(runs[r].target, failed,
                                                     salesFailed, badMonth)
              IN  runs' = [runs EXCEPT ![r] =
                    Settle([@ EXCEPT
                              !.planned = TRUE, !.todo = plan.items,
                              !.skipped = @ + plan.skipped,
                              !.errors = @ + plan.errors,
                              !.ran = @ \cup {"salesRep"},
                              !.threw = plan.threw,
                              !.clean = /\ @ /\ ~plan.threw
                                        /\ plan.errors = 0 /\ failed = {}])]
  /\ UNCHANGED <<sales, commissions, expenses, pnl, starts, changes, baseline,
                 limits, calc>>

\* processTeamLeaderCommissions; its reads (getMonthlySetterCallerCommissions,
\* getSalesByIds) sit in the outer try and a failing one is rethrown
PlanTeamLeader(r) ==
  /\ runs[r].active /\ runs[r].kind = "teamLeader" /\ ~runs[r].planned
  /\ \/ /\ PlanStep(r, processTeamLeaderCommissions)
        /\ fails' = fails
     \/ /\ fails < limits.fails
        /\ fails' = fails + 1
        /\ PlanStep(r, Thrown)
  /\ UNCHANGED <<sales, commissions, expenses, pnl, starts, changes,
                 baseline, limits, calc>>

PlanStripe(r) ==
  /\ runs[r].active /\ runs[r].kind = "stripe" /\ ~runs[r].planned
  /\ \/ /\ PlanStep(r, processStripeFees(runs[r].target, NoTarget))
        /\ fails' = fails
     \/ /\ fails < limits.fails
        /\ fails' = fails + 1
        /\ \E bad \in {sales[s].monthYear : s \in DOMAIN sales} :
             /\ runs[r].target \in {NoTarget, bad}
             /\ PlanStep(r, processStripeFees(runs[r].target, bad))
  /\ UNCHANGED <<sales, commissions, expenses, pnl, starts, changes,
                 baseline, limits, calc>>

\* processPNL: await getAllMonthYearsFromSales()
PnLStart(r) ==
  /\ runs[r].active /\ runs[r].kind = "pnl" /\ ~runs[r].planned
  /\ runs' = [runs EXCEPT ![r] =
                Settle([@ EXCEPT !.planned = TRUE,
                                 !.ran = @ \cup {"pnl"},
                                 !.periods = getAllMonthYearsFromSales])]
  /\ UNCHANGED <<sales, commissions, expenses, pnl, starts, fails, changes,
                 baseline, limits, calc>>

\* processPNLForMonthYear: the sales and the expenses of the period are read;
\* a read that fails after all retries is rethrown up to the caller of processPNL
PnLRead(r) ==
  /\ runs[r].active /\ runs[r].kind = "pnl" /\ runs[r].planned
  /\ runs[r].todo = <<>> /\ runs[r].periods # <<>>
  /\ \/ /\ runs' = [runs EXCEPT ![r] =
                Settle([@ EXCEPT
                          !.todo = processPNLForMonthYear(Head(runs[r].periods)),
                          !.periods = Tail(@)])]
        /\ fails' = fails
     \/ /\ fails < limits.fails
        /\ fails' = fails + 1
        /\ runs' = [runs EXCEPT ![r] =
                      Settle([@ EXCEPT !.threw = TRUE, !.clean = FALSE])]
  /\ UNCHANGED <<sales, commissions, expenses, pnl, starts, changes,
                 baseline, limits, calc>>

\* getPNLRecord: the ids of the lines of `table` its formula matches
PnLMatches(table, rec) ==
  {i \in 1..Len(table) :
     /\ table[i].project = rec.project
     /\ table[i].month = rec.month
     /\ table[i].year = rec.year
     /\ table[i].category = rec.category
     /\ table[i].cheltuiala = rec.cheltuiala}

\* the record ids the lookup of an item matches
Matches(item) ==
  IF item.table = "exp"
    THEN {i \in 1..Len(expenses) : expenses[i].key = item.rec.key}
    ELSE PnLMatches(pnl, item.rec)

\* getExpenseByExpenseId / getPNLRecord for the head item (maxRecords: 1)
Lookup(r) ==
  /\ runs[r].active /\ runs[r].todo # <<>> /\ runs[r].found = Unread
  /\ LET m == Matches(Head(runs[r].todo))
     IN  \/ /\ m = {}
            /\ runs' = [runs EXCEPT ![r].found = Null]
            /\ fails' = fails
         \/ /\ \E i \in m : runs' = [runs EXCEPT ![r].found = Hit(i)]
            /\ fails' = fails
         \/ /\ fails < limits.fails
            /\ fails' = fails + 1
            /\ runs' = [runs EXCEPT ![r].found = Failed, ![r].clean = FALSE]
  /\ UNCHANGED <<sales, commissions, expenses, pnl, starts, changes, baseline,
                 limits, calc>>

\* base(...).update: the fields sent replace those of the record
UpdateRecord(old, item) ==
  IF item.table = "pnl" /\ item.rec.suma = <<>>
    THEN [item.rec EXCEPT !.suma = old.suma]
    ELSE item.rec

Done(run) ==
  Settle([run EXCEPT !.todo = Tail(@), !.found = Unread])

\* variant: the failed write of one group is rethrown out of the kind
Caught_Rethrown(run, entry) ==
  Settle([run EXCEPT !.todo = <<>>, !.found = Unread, !.threw = TRUE,
                     !.clean = FALSE, !.log = Append(@, entry),
                     !.errors = @ + 1])

\* the catch block around the write of one group: the failure is counted
\* (skipped for a sales-rep group, errors elsewhere) and the loop goes on
Caught(run, entry) ==
  Done([run EXCEPT !.clean = FALSE,
                   !.log = Append(@, entry),
                   !.skipped = IF Head(run.todo).kind = "salesRep"
                                 THEN @ + 1 ELSE @,
                   !.errors = IF Head(run.todo).kind = "salesRep"
                                THEN @ ELSE @ + 1])

\* updateExpense / createExpense / the P&L update or create for the head item
Write(r) ==
  /\ runs[r].active /\ runs[r].todo # <<>> /\ runs[r].found # Unread
  /\ LET item == Head(runs[r].todo)
         f == runs[r].found
         entry(op) == [op |-> op, table |-> item.table,
                       key |-> IF item.table = "exp" THEN item.rec.key
                                                     ELSE <<>>]
     IN  \/ /\ f.st = "hit"
            /\ IF item.table = "exp"
                 THEN /\ expenses' = [expenses EXCEPT
                                        ![f.id] = UpdateRecord(@, item)]
                      /\ pnl' = pnl
                 ELSE /\ pnl' = [pnl EXCEPT ![f.id] = UpdateRecord(@, item)]
                      /\ expenses' = expenses
            /\ runs' = [runs EXCEPT ![r] =
                          Done([@ EXCEPT !.updated = @ + 1,
                                         !.log = Append(@, entry("update"))])]
            /\ fails' = fails
         \/ /\ f.st # "hit"
            /\ IF item.table = "exp"
                 THEN /\ expenses' = Append(expenses, item.rec)
                      /\ pnl' = pnl
                 ELSE /\ pnl' = Append(pnl, item.rec)
                      /\ expenses' = expenses
            /\ runs' = [runs EXCEPT ![r] =
                          Done([@ EXCEPT !.created = @ + 1,
                                         !.log = Append(@, entry("create"))])]
            /\ fails' = fails
         \/ \* the write fails after all retries and is caught by the caller
            /\ fails < limits.fails
            /\ fails' = fails + 1
            /\ runs' = [runs EXCEPT ![r] = Caught(@, entry("fail"))]
            /\ UNCHANGED <<expenses, pnl>>
  /\ UNCHANGED <<sales, commissions, starts, changes, baseline,
                 limits, calc>>

\* the invocation returns its results
Return(r) ==
  /\ runs[r].active /\ runs[r].kind = "done"
  /\ runs' = [runs EXCEPT ![r] = IdleRun]
  /\ baseline' =
       IF /\ runs[r].full /\ runs[r].target = NoTarget
          /\ runs[r].solo /\ runs[r].clean
         THEN [set |-> TRUE, expenses |-> expenses, pnl |-> pnl, edited |-> {},
               stopped |-> FALSE]
         ELSE [NoBaseline EXCEPT
                 !.stopped = /\ runs[r].threw /\ runs[r].full
                             /\ runs[r].target = NoTarget]
  /\ UNCHANGED <<sales, commissions, expenses, pnl, starts, fails, changes,
                 limits, calc>>

\* SIGTERM / SIGINT: process.exit(0) with whatever run is in progress; the
\* restarted process has no run in progress
Shutdown ==
  /\ limits.shutdown
  /\ \E r \in RunIds : runs[r].active
  /\ runs' = [r \in RunIds |-> IdleRun]
  /\ baseline' = [NoBaseline EXCEPT
                    !.stopped = \E r \in RunIds :
                                  /\ runs[r].active /\ runs[r].full
                                  /\ runs[r].target = NoTarget]
  /\ UNCHANGED <<sales, commissions, expenses, pnl, starts, fails, changes,
                 limits, calc>>

(***************************************************************************)
(* Upstream edits of the input tables                                      *)
(***************************************************************************)
Edits == {"saleAmount", "saleZero", "debtGrows", "refund"}

ChangeInput(e) ==
  /\ changes < limits.changes
  /\ \A r \in RunIds : ~runs[r].active
  /\ changes' = changes + 1
  /\ sales' =
       CASE e = "saleAmount" -> [sales EXCEPT !["s1"].totalAmount = 4000]
         [] e = "saleZero" -> [sales EXCEPT !["s2"].totalAmount = 0]
         [] e = "refund" -> [sales EXCEPT !["s2"].amountWithoutVat = -1685]
         [] OTHER -> sales
  /\ commissions' =
       IF e = "debtGrows"
         THEN [commissions EXCEPT !["c0"].finalCommission = -15000]
         ELSE commissions
  /\ baseline' =
       IF baseline.set \/ baseline.stopped
         THEN [baseline EXCEPT
                 !.edited = @ \cup {CASE e = "saleAmount" -> "s1"
                                      [] e = "debtGrows" -> "c0"
                                      [] OTHER -> "s2"}]
         ELSE baseline
  /\ UNCHANGED <<expenses, pnl, runs, starts, fails, limits, calc>>

Next ==
  \/ \E r \in RunIds : CronTick(r)
  \/ \E r \in RunIds : RefreshAll(r)
  \/ \E r \in RunIds, my \in {AllPeriods[i] : i \in 1..Len(AllPeriods)} :
       RefreshMonth(r, my)
  \/ \E r \in RunIds : CheltuieliCreated(r)
  \/ \E r \in RunIds : PlanSalesRep(r)
  \/ \E r \in RunIds : PlanTeamLeader(r)
  \/ \E r \in RunIds : PlanStripe(r)
  \/ \E r \in RunIds : PnLStart(r)
  \/ \E r \in RunIds : PnLRead(r)
  \/ \E r \in RunIds : Lookup(r)
  \/ \E r \in RunIds : Write(r)
  \/ \E r \in RunIds : Return(r)
  \/ Shutdown
  \/ \E e \in Edits : ChangeInput(e)

Spec == Init /\ [][Next]_vars

(***************************************************************************)
(* What the runs are measured against                                      *)
(***************************************************************************)
\* the expense items a full run over the present inputs computes
LatestItems ==
  processSalesRepCommissions(NoTarget, {}, {}, "").items
    \o processTeamLeaderCommissions.items
    \o processStripeFees(NoTarget, NoTarget).items

\* the expense items run q has not dealt with yet
Upcoming(q) ==
  LET k == runs[q].kind
      p == runs[q].planned
  IN  SelectSeq(runs[q].todo, LAMBDA item : item.table = "exp")
        \o (IF k = "salesRep" /\ ~p
              THEN processSalesRepCommissions(runs[q].target, {}, {}, "").items
              ELSE <<>>)
        \o (IF k = "salesRep" \/ (k = "teamLeader" /\ ~p)
              THEN processTeamLeaderCommissions.items ELSE <<>>)
        \o (IF k \in {"salesRep", "teamLeader"} \/ (k = "stripe" /\ ~p)
              THEN processStripeFees(runs[q].target, NoTarget).items ELSE <<>>)

\* run q is still reconciling expenses of the period monthYear
Reconciling(q, monthYear) ==
  /\ runs[q].active
  /\ \E i \in 1..Len(Upcoming(q)) :
       /\ Upcoming(q)[i].rec.month = monthYear.month
       /\ Upcoming(q)[i].rec.year = monthYear.year

\* run r has looked its head item up and has not written it yet
InProgress(r) ==
  runs[r].active /\ runs[r].todo # <<>> /\ runs[r].found # Unread

SameKey(a, b) ==
  /\ a.table = b.table
  /\ IF a.table = "exp"
       THEN a.rec.key = b.rec.key
       ELSE /\ a.rec.project = b.rec.project
            /\ a.rec.month = b.rec.month
            /\ a.rec.year = b.rec.year
            /\ a.rec.category = b.rec.category
            /\ a.rec.cheltuiala = b.rec.cheltuiala

\* a full run over all periods, alone, about to return
FullRunDone(r) ==
  /\ runs[r].active /\ runs[r].kind = "done"
  /\ runs[r].full /\ runs[r].target = NoTarget /\ runs[r].solo

\* ... that followed an undisturbed full run with no edit in between
SecondRunUnchanged(r) ==
  FullRunDone(r) /\ runs[r].base.set /\ runs[r].base.edited = {}

\* ... that followed an undisturbed full run with an edit in between
SecondRunChanged(r) ==
  FullRunDone(r) /\ runs[r].base.set /\ runs[r].base.edited # {}

Writes(r, op, key) ==
  Cardinality({i \in 1..Len(runs[r].log) :
                 /\ runs[r].log[i].op = op
                 /\ runs[r].log[i].table = "exp"
                 /\ runs[r].log[i].key = key})

\* the keys stored before the run whose computed amount the edit changed
AffectedKeys(base) ==
  {base.expenses[i].key : i \in
     {i \in 1..Len(base.expenses) :
        ~\E j \in 1..Len(LatestItems) :
            /\ LatestItems[j].rec.key = base.expenses[i].key
            /\ LatestItems[j].rec.amount = base.expenses[i].amount}}

\* the payee's commission records with a negative final commission
NegativeRecords(c) ==
  SelectSeq(ComisioaneLunare,
            LAMBDA d : /\ commissions[d].representative =
                            commissions[c].representative
                       /\ commissions[d].finalCommission < 0)

SumAbs(ds) ==
  SumSeq([i \in 1..Len(ds) |-> Abs(commissions[ds[i]].finalCommission)])

\* the sales-rep items pending in some run
SalesRepItems ==
  UNION {{runs[r].todo[i] : i \in
            {i \in 1..Len(runs[r].todo) : runs[r].todo[i].kind = "salesRep"}} :
         r \in RunIds}

\* the step of run r is the expenses read of processPNLForMonthYear
PnLReadStep(r) ==
  /\ runs[r].active /\ runs[r].kind = "pnl" /\ runs[r].planned
  /\ runs[r].todo = <<>> /\ runs[r].periods # <<>>
  /\ runs'[r] # runs[r]

(***************************************************************************)
(* The claims                                                              *)
(***************************************************************************)
\* C1: in every reachable state of the expense table at most one automatic
\* expense record carries a given natural key (Expense ID).
C1_OneRecordPerKey ==
  \A i, j \in 1..Len(expenses) :
    (/\ expenses[i].source = SOURCE.AUTOMATIC
     /\ expenses[j].source = SOURCE.AUTOMATIC
     /\ expenses[i].key = expenses[j].key) => i = j

\* C2: a second full run with unchanged inputs performs zero creates in the
\* expense and P&L tables and leaves every stored amount as the first run
\* left it.
C2_SecondRunIdempotent ==
  \A r \in RunIds :
    SecondRunUnchanged(r) =>
      /\ runs[r].created = 0
      /\ \A i \in 1..Len(runs[r].base.expenses) :
           expenses[i].amount = runs[r].base.expenses[i].amount
      /\ \A i \in 1..Len(runs[r].base.pnl) :
           pnl[i].suma = runs[r].base.pnl[i].suma

\* C3: when an input changed between two runs, the second run performs
\* exactly one update for each affected natural key and creates no second
\* record for it.
C3_OneUpdatePerAffectedKey ==
  \A r \in RunIds :
    SecondRunChanged(r) =>
      \A k \in AffectedKeys(runs[r].base) :
        Writes(r, "update", k) = 1 /\ Writes(r, "create", k) = 0

\* C4: after a run with updated inputs whose calls all succeeded, the
\* automatic expense records are exactly the ones the latest computation
\* yields, each with its latest amount.
C4_LatestComputationOnly ==
  \A r \in RunIds :
    (SecondRunChanged(r) /\ runs[r].clean) =>
      /\ \A i \in 1..Len(expenses) :
           expenses[i].source = SOURCE.AUTOMATIC =>
             \E j \in 1..Len(LatestItems) :
                /\ LatestItems[j].rec.key = expenses[i].key
                /\ LatestItems[j].rec.amount = expenses[i].amount
      /\ \A j \in 1..Len(LatestItems) :
           \E i \in 1..Len(expenses) : expenses[i].key = LatestItems[j].rec.key

\* C5: when the existence lookup for a key failed, the run treats the key as
\* existing: the step that follows the failed lookup creates no record.
C5_FailedLookupCreatesNothing ==
  [][\A r \in RunIds :
       (runs[r].found = Failed /\ runs'[r].found # Failed) =>
         (Len(expenses') = Len(expenses) /\ Len(pnl') = Len(pnl))]_vars

\* C6: at no time are two lookup-then-write sequences for the same natural
\* key in progress in two runs.
C6_NoConcurrentUpsertOnKey ==
  \A r, q \in RunIds :
    (r # q /\ InProgress(r) /\ InProgress(q)) =>
      ~SameKey(Head(runs[r].todo), Head(runs[q].todo))

\* C7: P&L aggregation reads the expenses of a period only when no run is
\* still reconciling expenses of that period.
C7_PnLReadsAfterReconciliation ==
  [][\A r \in RunIds :
       PnLReadStep(r) =>
         \A q \in RunIds \ {r} : ~Reconciling(q, Head(runs[r].periods))]_vars

\* C8: expenses of different periods have different natural keys, so no
\* write ever moves a stored expense record to another period.
C8_PeriodInKey ==
  [][\A i \in 1..Len(expenses) :
       /\ expenses'[i].month = expenses[i].month
       /\ expenses'[i].year = expenses[i].year]_vars

\* C9: the aggregate amount allocated for a sales-rep commission is the final
\* commission minus the sum of the absolute values of the payee's negative
\* commission records; the gross is never allocated when debt exists.
C9_NetCommissionAllocated ==
  \A item \in SalesRepItems :
    item.A = commissions[item.commission].finalCommission
               - SumAbs(NegativeRecords(item.commission))

\* C10: the debt deducted for a payee in period P comes from exactly the
\* payee's negative commission records of periods earlier than P.
C10_DebtsFromEarlierPeriods ==
  \A item \in SalesRepItems :
    ~item.debtsFailed =>
      item.debts =
        SelectSeq(NegativeRecords(item.commission),
                  LAMBDA d : MonthIndex(commissions[d].month) <
                             MonthIndex(commissions[item.commission].month))

(***************************************************************************)
(* Calculations applied on their own                                       *)
(***************************************************************************)
\* no run and no failure budget: only the tables and the calculation vary
Standalone ==
  /\ limits = [overlap |-> FALSE, fails |-> 0, changes |-> 0,
               shutdown |-> FALSE, manual |-> FALSE]
  /\ runs = [r \in RunIds |-> IdleRun]
  /\ starts = 0
  /\ fails = 0
  /\ changes = 0
  /\ baseline = NoBaseline

(***************************************************************************)
(* One sales-rep commission record                                         *)
(***************************************************************************)
CommissionAmounts == {-500, 0, 500, 1000, 1500}

DebtAmounts == {-1000, -500, 0}

SaleAmounts == {0, 1000, 3000}

LinkedSales == {{}, {"s1"}, {"s1", "s2"}}

\* the debt c0 of an earlier month, the commission c1 and its linked sales
InitCommission ==
  /\ Standalone
  /\ expenses = <<>>
  /\ pnl = <<>>
  /\ calc = NoCalc
  /\ \E a, b \in SaleAmounts :
       sales = [s \in {"s1", "s2"} |->
                  [InitSales[s] EXCEPT !.totalAmount = IF s = "s1" THEN a ELSE b]]
  /\ \E d \in DebtAmounts, f \in CommissionAmounts, l \in LinkedSales :
       commissions = [c \in {"c0", "c1"} |->
                        IF c = "c0"
                          THEN [InitCommissions[c] EXCEPT !.finalCommission = d]
                          ELSE [InitCommissions[c] EXCEPT !.finalCommission = f,
                                                          !.sales = l]]

\* processSalesRepCommission for one record of the month, inside the
\* per-commission try/catch of processSalesRepCommissionsForMonth
CalcCommission(c, debtsFailed, salesFailed) ==
  LET month == commissions[c].month
      failed == IF debtsFailed THEN {c} ELSE {}
      debts == DebtsRead(c, month, failed)
      res == processSalesRepCommission(c, month, CurrentYear, debts,
                                       debtsFailed, salesFailed)
  IN  /\ calc' = [op |-> "processSalesRepCommission", commission |-> c,
                  debts |-> debts, debtsFailed |-> debtsFailed,
                  salesFailed |-> salesFailed,
                  netCommission |-> NetCommission(c, debts),
                  totalSalesAmount |->
                    SumSeq([i \in 1..Len(SalesRepValidSales(c)) |->
                              sales[SalesRepValidSales(c)[i]].totalAmount]),
                  items |-> res.items, skipped |-> res.skipped,
                  errors |-> IF res.threw THEN 1 ELSE res.errors]
      /\ UNCHANGED <<sales, commissions, expenses, pnl, runs, starts, fails,
                     changes, baseline, limits>>

ApplyCommission ==
  \E c \in DOMAIN commissions, debtsFailed, salesFailed \in BOOLEAN :
    CalcCommission(c, debtsFailed, salesFailed)

SpecCommission == InitCommission /\ [][ApplyCommission]_vars

\* C11: when the net commission of a payee and period (the commission less the
\* debts found) is zero or negative, processing the commission yields no
\* expense to write, counts the commission once as skipped and raises no error.
C11_NonPositiveNetSkipped ==
  (calc.op = "processSalesRepCommission" /\ calc.netCommission <= 0)
    => /\ calc.items = <<>>
       /\ calc.skipped = 1
       /\ calc.errors = 0

\* a commission of 500 against a debt of 500 (net exactly 0) has been processed
C11_Witness ==
  /\ calc.op = "processSalesRepCommission"
  /\ commissions[calc.commission].finalCommission > 0
  /\ calc.debts # <<>>
  /\ calc.netCommission = 0
  /\ calc.skipped = 1

\* C15: when the total weight over the groups of a payee's commission (the
\* sale amounts of its linked sales that count) is 0, nothing is allocated, so
\* nothing is divided by zero and no expense is written for that payee and
\* period, and the commission is counted once as skipped, without an error.
C15_ZeroTotalWeightSkipped ==
  (/\ calc.op = "processSalesRepCommission"
   /\ calc.totalSalesAmount = 0
   /\ ~(calc.salesFailed /\ calc.errors = 1))
    => /\ calc.items = <<>>
       /\ calc.skipped = 1
       /\ calc.errors = 0

\* a commission of positive net amount whose two linked sales both have amount
\* 0 has been processed
C15_Witness ==
  /\ calc.op = "processSalesRepCommission"
  /\ calc.netCommission > 0
  /\ commissions[calc.commission].sales = {"s1", "s2"}
  /\ ~calc.salesFailed
  /\ calc.totalSalesAmount = 0
  /\ calc.skipped = 1

(***************************************************************************)
(* Proportional allocation of one aggregate amount                         *)
(***************************************************************************)
\* the aggregate amount is drawn in tenths of a ban, finer than the 2 decimals
\* the allocations are rounded to
Tenths == 10

MaxGroups == 3

\* 0.001 .. 100.05 RON, in tenths of a ban
AggregateAmounts == {1, 5, 10, 995, 1000, 1005, 3333, 10000, 100005}

Weights == {1, 2, 3}

WeightSeqs == UNION {[1..n -> Weights] : n \in 1..MaxGroups}

InitAllocation ==
  /\ Standalone
  /\ expenses = <<>>
  /\ pnl = <<>>
  /\ sales = InitSales
  /\ commissions = InitCommissions
  /\ \E A \in AggregateAmounts, w \in WeightSeqs :
       calc = [op |-> "input", A |-> A, weights |-> w, allocations |-> <<>>]

\* the loop over the project groups of processSalesRepCommission
CalcAllocation ==
  /\ calc.op = "input"
  /\ calc' = [calc EXCEPT
                !.op = "allocated",
                !.allocations =
                  [i \in 1..Len(calc.weights) |->
                     roundedAllocation(calc.A, Tenths, calc.weights[i],
                                       SumSeq(calc.weights))]]
  /\ UNCHANGED <<sales, commissions, expenses, pnl, runs, starts, fails,
                 changes, baseline, limits>>

SpecAllocation == InitAllocation /\ [][CalcAllocation]_vars

\* the sum of the allocations less the aggregate amount, in tenths of a ban
AllocationDrift == Tenths * SumSeq(calc.allocations) - calc.A

Infinity == 1000000

COPYWRITING ==
  [category |-> "Copywriting",
   tiers |-> << [max |-> 10000, rate |-> 2],
                [max |-> 25000, rate |-> 3],
                [max |-> Infinity, rate |-> 4] >>,
   eurRonRate |-> 5]

Min(a, b) == IF a <= b THEN a ELSE b

RECURSIVE GCD(_, _)
GCD(a, b) == IF b = 0 THEN a ELSE GCD(b, a % b)

\* the loop over COPYWRITING.tiers from tier i on: amounts in 1/1000 EUR,
\* the commission in 1/40000 EUR
RECURSIVE TierWalk_Flat(_, _, _)
TierWalk_Flat(i, remainingAmount, previousThreshold) ==
  IF i > Len(COPYWRITING.tiers) \/ remainingAmount <= 0 THEN 0
  ELSE IF \/ i = Len(COPYWRITING.tiers)
          \/ remainingAmount <= 1000 * COPYWRITING.tiers[i].max
         THEN remainingAmount * COPYWRITING.tiers[i].rate
         ELSE TierWalk_Flat(i + 1, remainingAmount, 0)

RECURSIVE TierWalk(_, _, _)
TierWalk(i, remainingAmount, previousThreshold) ==
  IF i > Len(COPYWRITING.tiers) \/ remainingAmount <= 0 THEN 0
  ELSE LET tierMax == 1000 * COPYWRITING.tiers[i].max
           tierAmount == Min(remainingAmount, tierMax - previousThreshold)
       IN  IF tierAmount > 0
             THEN tierAmount * COPYWRITING.tiers[i].rate
                    + TierWalk(i + 1, remainingAmount - tierAmount, tierMax)
             ELSE TierWalk(i + 1, remainingAmount, tierMax)

\* totalSalesRON in bani; the result in 1/400 ban
calculateProgressiveCommission(totalSalesRON) ==
  LET totalSalesEUR == (totalSalesRON * 10) \div COPYWRITING.eurRonRate
      totalCommission == TierWalk(1, totalSalesEUR, 0)
  IN  totalCommission * COPYWRITING.eurRonRate

\* the result units of calculateProgressiveCommission per ban
PerBan == 400

\* an exact quotient; proportion = projectSalesValue / totalSalesValueRON
Ratio(n, d) == [num |-> n \div GCD(n, d), den |-> d \div GCD(n, d)]

\* dianaSales: the month's sales of the copywriter, as <<project, amount>>
processCopywritingCommissionsForMonthYear(dianaSales) ==
  LET validSales == SelectSeq(dianaSales,
                              LAMBDA s : s[2] > 0 /\ isValidProject(s[1]))
      totalSalesValueRON == SumSeq([i \in 1..Len(validSales) |-> validSales[i][2]])
      totalCommissionRON == calculateProgressiveCommission(totalSalesValueRON)
      projectSalesValue(p) ==
        LET g == SelectSeq(validSales, LAMBDA s : s[1] = p)
        IN  SumSeq([i \in 1..Len(g) |-> g[i][2]])
      projects == SelectSeq(ProjectSeq, LAMBDA p : projectSalesValue(p) > 0)
      \* data.projectCommission = totalCommissionRON * proportion, exactly
      projectCommission(p) ==
        LET proportion == Ratio(projectSalesValue(p), totalSalesValueRON)
        IN  Ratio(totalCommissionRON * proportion.num, proportion.den)
  IN  [skipped |-> Len(dianaSales) - Len(validSales),
       totalSalesValue |-> totalSalesValueRON,
       totalCommission |-> totalCommissionRON,
       \* createOrUpdateCopywritingExpense: the amount field is projectCommission
       items |-> [i \in 1..Len(projects) |->
                    [key |-> <<"copywriting", projects[i], CurrentMonth>>,
                     project |-> projects[i],
                     projectSalesValue |-> projectSalesValue(projects[i]),
                     amount |-> projectCommission(projects[i])]]]

\* amountWithoutVat of the copywriter's sale in each project, in bani:
\* up to 42.00 RON, or multiples of 25 000 RON
SmallBasis == {0, 110, 333, 1000, 2500, 3333, 4200}

LargeBasis == {2500000 * k : k \in 0..3}

InitCopywriting ==
  /\ Standalone
  /\ expenses = <<>>
  /\ pnl = <<>>
  /\ sales = InitSales
  /\ commissions = InitCommissions
  /\ \E b \in (SmallBasis \X SmallBasis) \cup (LargeBasis \X LargeBasis) :
       calc = [op |-> "input",
               dianaSales |-> << <<ProjectSeq[1], b[1]>>, <<ProjectSeq[2], b[2]>> >>]

CalcCopywriting ==
  /\ calc.op = "input"
  /\ calc' = [op |-> "copywriting", dianaSales |-> calc.dianaSales,
              result |-> processCopywritingCommissionsForMonthYear(calc.dianaSales)]
  /\ UNCHANGED <<sales, commissions, expenses, pnl, runs, starts, fails,
                 changes, baseline, limits>>

SpecCopywriting == InitCopywriting /\ [][CalcCopywriting]_vars

\* the amount in bani that a quotient in 1/400 ban rounds to (half up)
RoundedToBani(q) == (q.num + q.den * (PerBan \div 2)) \div (q.den * PerBan)

\* C13: each project's copywriting expense amount is the total progressive
\* commission over the combined basis times the project's share of the basis,
\* rounded to 2 decimals as the sales-rep allocation is.
C13_ProjectShareRounded ==
  calc.op = "copywriting"
    => \A i \in 1..Len(calc.result.items) :
         LET it == calc.result.items[i]
             share == Ratio(it.projectSalesValue, calc.result.totalSalesValue)
             exact == Ratio(calc.result.totalCommission * share.num, share.den)
         IN  it.amount = Ratio(PerBan * RoundedToBani(exact), 1)

\* the basis of the calculation in 1/1000 EUR, and the tier bounds and rates
BasisEUR == (calc.result.totalSalesValue * 10) \div COPYWRITING.eurRonRate

TierMax(i) == 1000 * COPYWRITING.tiers[i].max

TierRate(i) == COPYWRITING.tiers[i].rate

DrawnExpenses ==
  { Expense(<<"drawn", c, a>>, Description(c, CurrentMonth, a, 0),
            ProjectSeq[1], c, a, CurrentMonth, CurrentYear) :
      c \in {EXPENSE_CATEGORIES.REPRESENTATIVES, EXPENSE_CATEGORIES.CALLER,
             EXPENSE_CATEGORIES.TAXE_IMPOZITE},
      a \in {500, 1500} }
  \cup
  { [Expense(<<"manual">>, Description("manual", CurrentMonth, 0, 0),
             ProjectSeq[1], EXPENSE_CATEGORIES.REPRESENTATIVES, 700,
             CurrentMonth, CurrentYear) EXCEPT !.source = SOURCE.MANUAL] }

MaxExpenses == 2

InitPnL ==
  /\ Standalone
  /\ calc = NoCalc
  /\ commissions = InitCommissions
  /\ \E a \in {0, 1000, 4000} :
       sales = [InitSales EXCEPT !["s1"].totalAmount = a]
  /\ expenses \in UNION {[1..n -> DrawnExpenses] : n \in 0..MaxExpenses}
  /\ \A i, j \in 1..Len(expenses) : expenses[i] = expenses[j] => i = j
  /\ pnl = <<>>

\* createOrUpdatePNLRecord for each line in turn, every call succeeding: the
\* line getPNLRecord returns is updated, or the line is created
RECURSIVE UpsertLines(_, _)
UpsertLines(table, items) ==
  IF items = <<>> THEN table
  ELSE LET m == PnLMatches(table, Head(items).rec)
           i == CHOOSE i \in m : \A j \in m : i <= j
       IN  UpsertLines(IF m = {} THEN Append(table, Head(items).rec)
                                 ELSE [table EXCEPT
                                         ![i] = UpdateRecord(@, Head(items))],
                       Tail(items))

\* processPNLForMonthYear run to its end with no failing call
RunPnL(monthYear) ==
  LET items == processPNLForMonthYear(monthYear)
  IN  /\ calc' = [op |-> "processPNLForMonthYear", monthYear |-> monthYear,
                  items |-> [i \in 1..Len(items) |-> items[i].rec]]
      /\ pnl' = UpsertLines(pnl, items)
      /\ UNCHANGED <<sales, commissions, expenses, runs, starts, fails,
                     changes, baseline, limits>>

ApplyPnL == \E i \in 1..Len(getAllMonthYearsFromSales) :
              RunPnL(getAllMonthYearsFromSales[i])

SpecPnL == InitPnL /\ [][ApplyPnL]_vars

\* the automatic-source expenses of a project and period in Cheltuieli
AutomaticExpenses(project, month, year) ==
  SelectSeq(expenses, LAMBDA e : /\ e.project = project
                                 /\ e.month = month
                                 /\ e.year = year
                                 /\ e.source = SOURCE.AUTOMATIC)

\* the lines named `name` that the last calculation emitted for the project
SummaryLines(project, name) ==
  SelectSeq(calc.items, LAMBDA l : /\ l.project = project
                                   /\ l.category = PNL_CATEGORIES.PNL
                                   /\ l.cheltuiala.text = name)

\* C16: for each project and period with revenue R, the TotalExpense line is
\* the sum of the amounts of all automatic-source expenses of the project and
\* period, TotalProfit is R - TotalExpense, and the margin is
\* TotalProfit / R * 100, or 0 when R is 0.
C16_SummaryLines ==
  calc.op = "processPNLForMonthYear"
    => \A p \in {calc.items[i].project : i \in 1..Len(calc.items)} :
         LET auto == AutomaticExpenses(p, calc.monthYear.month,
                                       calc.monthYear.year)
             total == SumSeq([i \in 1..Len(auto) |-> auto[i].amount])
             R == getSalesByProject(calc.monthYear.month, calc.monthYear.year,
                                    p).total
         IN  /\ SummaryLines(p, PNL_SUMMARY_RECORDS.TOTAL_CHELTUIELI)[1].suma
                  = <<total>>
             /\ SummaryLines(p, PNL_SUMMARY_RECORDS.TOTAL_PROFIT)[1].suma
                  = <<R - total>>
             /\ SummaryLines(p, PNL_SUMMARY_RECORDS.MARJA_PROFIT)[1]
                  .description.count
                  = IF R = 0 THEN 0 ELSE RoundDiv((R - total) * 10000, R)

\* the lines of the P&L table for the project and period, less the summary
\* lines of the P&L category
IndividualLines(project, monthYear) ==
  SelectSeq(pnl, LAMBDA l : /\ l.project = project
                            /\ l.month = monthYear.month
                            /\ l.year = monthYear.year
                            /\ l.category # PNL_CATEGORIES.PNL)

\* C17: after a P&L run for a project and period the P&L table holds one
\* individual line for each automatic expense of the project and period (n
\* expenses yield n individual lines), next to the summary lines.
C17_OneLinePerExpense ==
  calc.op = "processPNLForMonthYear"
    => \A p \in {calc.items[i].project : i \in 1..Len(calc.items)} :
         /\ Len(IndividualLines(p, calc.monthYear))
              = Len(AutomaticExpenses(p, calc.monthYear.month,
                                      calc.monthYear.year))
         /\ \A n \in {PNL_SUMMARY_RECORDS.INCASARI,
                      PNL_SUMMARY_RECORDS.TOTAL_CHELTUIELI,
                      PNL_SUMMARY_RECORDS.TOTAL_PROFIT,
                      PNL_SUMMARY_RECORDS.MARJA_PROFIT} :
              \E i \in 1..Len(pnl) :
                /\ pnl[i].project = p
                /\ pnl[i].month = calc.monthYear.month
                /\ pnl[i].year = calc.monthYear.year
                /\ pnl[i].category = PNL_CATEGORIES.PNL
                /\ pnl[i].cheltuiala.text = n

\* C18: the P&L table holds at most one line for a (project, period, category,
\* label); a further run updates the line and never creates another.
C18_OneLinePerKey ==
  \A i, j \in 1..Len(pnl) : j \in PnLMatches(pnl, pnl[i]) => i = j

(***************************************************************************)
(* Failures inside a run                                                   *)
(***************************************************************************)
\* C19: a failure that is fatal for one allocation kind in one period (an
\* exception while that kind is processed) stays inside that kind and period:
\* the remaining kinds and the P&L are still executed in the same run.
C19_FailureStaysInKind ==
  \A r \in RunIds :
    (runs[r].active /\ runs[r].full /\ runs[r].kind = "done")
      => {"salesRep", "teamLeader", "stripe", "pnl"} \subseteq runs[r].ran

\* the step of run r in which a record-store call of its head group fails
GroupFailure(r) ==
  /\ runs[r].active
  /\ runs[r].todo # <<>>
  /\ runs'[r] # runs[r]
  /\ fails' = fails + 1

\* C20: within one kind and period, a lookup or a write that fails for one
\* group does not stop the remaining groups: the groups after it stay pending
\* in the same kind and the failure throws nothing out of the kind.
C20_GroupFailureContained ==
  [][\A r \in RunIds :
       GroupFailure(r)
         => LET rest == IF runs[r].found = Unread THEN runs[r].todo
                                                  ELSE Tail(runs[r].todo)
            IN  /\ runs'[r].threw = runs[r].threw
                /\ rest # <<>> => /\ runs'[r].todo = rest
                                  /\ runs'[r].kind = runs[r].kind]_vars

\* a run whose write failed for one expense group has since written the
\* expense of a later group
C20_Witness ==
  \E r \in RunIds :
    \E i, j \in 1..Len(runs[r].log) :
      /\ i < j
      /\ runs[r].log[i].op = "fail"
      /\ runs[r].log[i].table = "exp"
      /\ runs[r].log[j].op = "create"
      /\ runs[r].log[j].table = "exp"

\* the writes of run r that failed after all retries
FailedWrites(r) ==
  {i \in 1..Len(runs[r].log) : runs[r].log[i].op = "fail"}

\* C21: a create or update of a group that still fails once the retries are
\* exhausted is counted in the errors count the run returns.
C21_FailedWriteCountedAsError ==
  \A r \in RunIds :
    runs[r].active => runs[r].errors >= Cardinality(FailedWrites(r))

(***************************************************************************)
(* Recovery after a run that stopped                                       *)
(***************************************************************************)
\* the expense upserts of `items` in turn, every call succeeding
RECURSIVE UpsertExpenses(_, _)
UpsertExpenses(table, items) ==
  IF items = <<>> THEN table
  ELSE LET m == {i \in 1..Len(table) : table[i].key = Head(items).rec.key}
           i == CHOOSE i \in m : \A j \in m : i <= j
       IN  UpsertExpenses(IF m = {} THEN Append(table, Head(items).rec)
                                    ELSE [table EXCEPT ![i] = Head(items).rec],
                          Tail(items))

\* the P&L upserts of the periods in turn over the expenses now stored
RECURSIVE UpsertPeriods(_, _)
UpsertPeriods(table, periods) ==
  IF periods = <<>> THEN table
  ELSE UpsertPeriods(UpsertLines(table, processPNLForMonthYear(Head(periods))),
                     Tail(periods))

\* the records of a table whatever their record ids: record -> occurrences
Records(table) ==
  [x \in {table[i] : i \in 1..Len(table)} |->
     Cardinality({i \in 1..Len(table) : table[i] = x})]

\* the tables hold the records an uninterrupted run over the present inputs
\* leaves when started on empty tables
UninterruptedTables ==
  /\ Records(expenses) = Records(UpsertExpenses(<<>>, LatestItems))
  /\ Records(pnl) = Records(UpsertPeriods(<<>>, getAllMonthYearsFromSales))

\* a full run over all periods, alone, has finished every kind and the P&L
\* with no failed write and no error counted
CompleteRun(r) ==
  /\ FullRunDone(r) /\ ~runs[r].threw
  /\ runs[r].errors = 0 /\ FailedWrites(r) = {}

\* C22: when the first run, started on empty tables, stopped before finishing,
\* the next complete run over the same inputs ends in the expense and P&L
\* tables an uninterrupted run produces, with one record per natural key.
C22_RecoveredByNextRun ==
  \A r \in RunIds :
    (/\ CompleteRun(r) /\ starts = 2
     /\ runs[r].base.stopped /\ runs[r].base.edited = {})
      => UninterruptedTables

(***************************************************************************)
(* Records entered by hand                                                 *)
(***************************************************************************)
\* C23: no step of a run updates or deletes an expense record whose source is
\* Manual, and no run creates one.
C23_ManualUntouched ==
  [][/\ \A i \in 1..Len(expenses) :
          expenses[i].source = SOURCE.MANUAL
            => /\ i <= Len(expenses')
               /\ expenses'[i] = expenses[i]
     /\ \A i \in 1..Len(expenses') :
          i > Len(expenses) => expenses'[i].source # SOURCE.MANUAL]_vars

(***************************************************************************)
(* The frame of a single-month refresh                                     *)
(***************************************************************************)
\* the step changes in `table` only records of the period monthYear: a record
\* of another period is left as it is, a record written belongs to monthYear
OnlyPeriodWritten(table, tableAfter, monthYear) ==
  /\ Len(tableAfter) >= Len(table)
  /\ \A i \in 1..Len(table) :
       Period(table[i].month, table[i].year) # monthYear
         => tableAfter[i] = table[i]
  /\ \A i \in 1..Len(tableAfter) :
       (i > Len(table) \/ tableAfter[i] # table[i])
         => Period(tableAfter[i].month, tableAfter[i].year) = monthYear

\* C24: a /refresh/month run for period P creates or updates only expense and
\* P&L records of period P; the records of every other period are unchanged.
C24_RefreshMonthFrame ==
  [][\A r \in RunIds :
       (runs[r].active /\ runs[r].target # NoTarget /\ runs'[r] # runs[r])
         => /\ OnlyPeriodWritten(expenses, expenses', runs[r].target)
            /\ OnlyPeriodWritten(pnl, pnl', runs[r].target)]_vars

(***************************************************************************)
(* The period key of POST /refresh/month                                   *)
(***************************************************************************)
\* A request's monthYear is a sequence of pieces of text: runs of letters,
\* single whitespace characters, runs of digits, and a character that is none
\* of these.  The string is their concatenation.
MaxPieces == 4

Piece(class, text, length) == [class |-> class, text |-> text, length |-> length]

Pieces ==
  {Piece("letter", t, 0) : t \in {"Octombrie", "Mai", "octombrie", "Octo", "mbrie"}}
    \cup {Piece("space", t, 1) : t \in {" ", "\t"}}
    \cup {Piece("digit", "2025", 4), Piece("digit", "20", 2), Piece("digit", "5", 1)}
    \cup {Piece("other", "-", 1)}

MonthYears == UNION {[1..n -> Pieces] : n \in 0..MaxPieces}

RECURSIVE Text(_)
Text(ps) == IF ps = <<>> THEN "" ELSE Head(ps).text \o Text(Tail(ps))

\* monthYear.match(/^([A-Za-z...]+)\s+(\d{4})$/): the letters, the whitespace
\* and the digits the expression matches, or no match
MonthYearMatch(monthYear) ==
  LET n == Len(monthYear)
      cuts == {c \in (1..n) \X (1..n) :
                 /\ c[1] < c[2] /\ c[2] < n
                 /\ \A k \in 1..n :
                      monthYear[k].class =
                        IF k <= c[1] THEN "letter"
                        ELSE IF k <= c[2] THEN "space" ELSE "digit"
                 /\ SumSeq([k \in 1..(n - c[2]) |->
                              monthYear[c[2] + k].length]) = 4}
  IN  IF cuts = {} THEN [matched |-> FALSE, month |-> "", space |-> <<>>,
                         year |-> ""]
      ELSE LET c == CHOOSE c \in cuts : TRUE
           IN  [matched |-> TRUE,
                month |-> Text(SubSeq(monthYear, 1, c[1])),
                space |-> SubSeq(monthYear, c[1] + 1, c[2]),
                year |-> Text(SubSeq(monthYear, c[2] + 1, n))]

\* the three checks of the handler before it starts processCommissions
RefreshMonthAccepts(monthYear) ==
  /\ monthYear # <<>>
  /\ MonthYearMatch(monthYear).matched
  /\ \E i \in 1..Len(ROMANIAN_MONTHS) :
       ROMANIAN_MONTHS[i] = MonthYearMatch(monthYear).month

InitPeriodKey ==
  /\ Standalone
  /\ expenses = <<>>
  /\ pnl = <<>>
  /\ sales = InitSales
  /\ commissions = InitCommissions
  /\ \E monthYear \in MonthYears :
       calc = [op |-> "request", monthYear |-> monthYear, status |-> 0,
               started |-> FALSE]

\* app.post('/refresh/month'): 400 for a rejected key, otherwise the response
\* is sent and processCommissions(monthYear) is started
PostRefreshMonth ==
  /\ calc.op = "request"
  /\ calc' = [calc EXCEPT
                !.op = "POST /refresh/month",
                !.status = IF RefreshMonthAccepts(calc.monthYear) THEN 200
                                                                  ELSE 400,
                !.started = RefreshMonthAccepts(calc.monthYear)]
  /\ UNCHANGED <<sales, commissions, expenses, pnl, runs, starts, fails,
                 changes, baseline, limits>>

SpecPeriodKey == InitPeriodKey /\ [][PostRefreshMonth]_vars

\* the key is a Romanian month name, one space and a year of 4 digits
StrictPeriodKey(monthYear) ==
  LET m == MonthYearMatch(monthYear)
  IN  /\ m.matched
      /\ \E i \in 1..Len(ROMANIAN_MONTHS) : ROMANIAN_MONTHS[i] = m.month
      /\ m.space = <<Piece("space", " ", 1)>>

\* C25: the handler accepts a period key only if it is "<MonthName> <4-digit
\* year>" with one of the twelve Romanian month names; every other value is
\* rejected and starts no processing.
C25_StrictPeriodKey ==
  calc.op = "POST /refresh/month"
    => /\ calc.started => StrictPeriodKey(calc.monthYear)
       /\ ~StrictPeriodKey(calc.monthYear)
            => (~calc.started /\ calc.status = 400)

(***************************************************************************)
(* Name resolution against the Reprezentanti directory                     *)
(***************************************************************************)
\* A name is the sequence of its characters.
MaxEntries == 3

\* records of Reprezentanti: Nume and Rol
Representatives ==
  {[name |-> <<"O", "p", "r", "e", "s", "c", "u">>, role |-> "Caller"],
   [name |-> <<"O", "p", "r", "e", "s", "c", "v">>, role |-> "Setter"],
   [name |-> <<"P", "o", "p", "a">>, role |-> "Caller"],
   [name |-> <<"O", "p", "r", "e", "s", "c", "u">>, role |-> "Sales"]}

\* the directory tables: distinct records in any order
Directories ==
  UNION {{d \in [1..n -> Representatives] :
            \A i, j \in 1..n : d[i] = d[j] => i = j} : n \in 0..MaxEntries}

\* names found in the Utm Campaign of a sale
SearchNames ==
  {<<>>,
   <<"o", "p", "r", "e", "s", "c", "u">>,
   <<"O", "P", "R", "E", "S", "C", "U", " ">>,
   <<"o", "p", "r", "e", "s", "c">>,
   <<"o", "p", "r", "e", "s", "c", "x">>,
   <<"o", "p", "e", "s", "c", "u">>,
   <<"p", "o", "p">>,
   <<"x", "y", "z">>}

toLowerCase(s) ==
  [i \in 1..Len(s) |->
     CASE s[i] = "O" -> "o" [] s[i] = "P" -> "p" [] s[i] = "R" -> "r"
       [] s[i] = "E" -> "e" [] s[i] = "S" -> "s" [] s[i] = "C" -> "c"
       [] s[i] = "U" -> "u" [] OTHER -> s[i]]

RECURSIVE trim(_)
trim(s) ==
  IF s = <<>> THEN s
  ELSE IF Head(s) = " " THEN trim(Tail(s))
  ELSE IF s[Len(s)] = " " THEN trim(SubSeq(s, 1, Len(s) - 1))
  ELSE s

\* String.prototype.includes
includes(s, part) ==
  \E i \in 0..(Len(s) - Len(part)) : SubSeq(s, i + 1, i + Len(part)) = part

\* one cell of the matrix of getEditDistance, given the row above
RECURSIVE Cell(_, _, _, _, _)
Cell(above, str1, str2, i, j) ==
  IF j = 0 THEN i
  ELSE IF str2[i] = str1[j] THEN above[j - 1]
  ELSE Min(Min(above[j - 1] + 1, Cell(above, str1, str2, i, j - 1) + 1),
           above[j] + 1)

RECURSIVE MatrixRow(_, _, _)
MatrixRow(str1, str2, i) ==
  IF i = 0 THEN [j \in 0..Len(str1) |-> j]
  ELSE LET above == MatrixRow(str1, str2, i - 1)
       IN  [j \in 0..Len(str1) |-> Cell(above, str1, str2, i, j)]

getEditDistance(str1, str2) == MatrixRow(str1, str2, Len(str2))[Len(str1)]

\* calculateSimilarity as the exact fraction [num, den]; 1 for two empty strings
calculateSimilarity(str1, str2) ==
  LET longer == IF Len(str1) > Len(str2) THEN str1 ELSE str2
      shorter == IF Len(str1) > Len(str2) THEN str2 ELSE str1
  IN  IF Len(longer) = 0 THEN [num |-> 1, den |-> 1]
      ELSE [num |-> Len(longer) - getEditDistance(longer, shorter),
            den |-> Len(longer)]

\* similarity >= 0.85 && similarity < 1.0
IsCloseMatch(similarity) ==
  /\ 100 * similarity.num >= 85 * similarity.den
  /\ similarity.num < similarity.den

First(S) == CHOOSE i \in S : \A j \in S : i <= j

\* step 3: the one similar entry, otherwise none
PickCloseMatch(closeMatches) ==
  IF Cardinality(closeMatches) = 1 THEN First(closeMatches) ELSE 0

\* the index in allRepresentatives of the entry returned, 0 for null
findRepresentativeByFuzzyName(directory, searchName) ==
  IF searchName = <<>> THEN 0
  ELSE
    LET normalizedSearch == trim(toLowerCase(searchName))
        allRepresentatives ==
          SelectSeq(directory, LAMBDA rep : /\ rep.name # <<>>
                                            /\ rep.role \in {"Caller", "Setter"})
        ids == 1..Len(allRepresentatives)
        normalizedName(i) == toLowerCase(allRepresentatives[i].name)
        exact == {i \in ids : normalizedName(i) = normalizedSearch}
        partial == {i \in ids : \/ includes(normalizedName(i), normalizedSearch)
                                \/ includes(normalizedSearch, normalizedName(i))}
        closeMatches ==
          {i \in ids : IsCloseMatch(calculateSimilarity(normalizedName(i),
                                                        normalizedSearch))}
    IN  IF exact # {} THEN First(exact)
        ELSE IF partial # {} THEN First(partial)
        ELSE PickCloseMatch(closeMatches)

InitResolution ==
  /\ Standalone
  /\ expenses = <<>>
  /\ pnl = <<>>
  /\ sales = InitSales
  /\ commissions = InitCommissions
  /\ \E directory \in Directories, searchName \in SearchNames :
       calc = [op |-> "lookup", directory |-> directory,
               searchName |-> searchName, match |-> 0]

ResolveName ==
  /\ calc.op = "lookup"
  /\ calc' = [calc EXCEPT
                !.op = "findRepresentativeByFuzzyName",
                !.match = findRepresentativeByFuzzyName(calc.directory,
                                                        calc.searchName)]
  /\ UNCHANGED <<sales, commissions, expenses, pnl, runs, starts, fails,
                 changes, baseline, limits>>

SpecResolution == InitResolution /\ [][ResolveName]_vars

\* the Callers and Setters of the directory, in table order
Candidates == SelectSeq(calc.directory,
                        LAMBDA rep : rep.role \in {"Caller", "Setter"})

\* the entries whose name is the searched name but for case and outer blanks
ExactMatches ==
  {i \in 1..Len(Candidates) :
     toLowerCase(Candidates[i].name) = trim(toLowerCase(calc.searchName))}

\* the entries at least 0.85 similar to the searched name
SimilarMatches ==
  {i \in 1..Len(Candidates) :
     LET s == calculateSimilarity(toLowerCase(Candidates[i].name),
                                  trim(toLowerCase(calc.searchName)))
     IN  100 * s.num >= 85 * s.den}

\* the entries that contain the searched name or are contained in it
PartialMatches ==
  {i \in 1..Len(Candidates) :
     LET n == toLowerCase(Candidates[i].name)
         s == trim(toLowerCase(calc.searchName))
     IN  includes(n, s) \/ includes(s, n)}

\* C26: with no exact case-insensitive match and more than one matching
\* entry the name is reported unresolved; an entry is returned for its
\* similarity only when it is the one entry at least 0.85 similar.
C26_AmbiguousUnresolved ==
  (calc.op = "findRepresentativeByFuzzyName" /\ ExactMatches = {})
    => /\ Cardinality(PartialMatches \cup SimilarMatches) > 1
            => calc.match = 0
       /\ (calc.match # 0 /\ calc.match \notin PartialMatches)
            => SimilarMatches = {calc.match}

(***************************************************************************)
(* Setter and Caller commissions of the current month                      *)
(***************************************************************************)
\* Amounts of this section are in 1/10 ban; an expense amount is in bani.
MaxSales == 2
MaxEdits == 1

\* SETTER_CALLER_NAME_REGEX: ^[A-Z][a-z]+[A-Z][a-z]+$
isValidSetterCallerName(name) ==
  LET UpperCase == {"O", "P", "R", "E", "S", "C", "U"}
      LowerCase == {"o", "p", "r", "e", "s", "c", "u", "v", "a", "x", "y", "z"}
  IN  \E k \in 2..(Len(name) - 2) :
        /\ name[1] \in UpperCase
        /\ \A i \in 2..k : name[i] \in LowerCase
        /\ name[k + 1] \in UpperCase
        /\ \A i \in (k + 2)..Len(name) : name[i] \in LowerCase

\* the Utm Campaign values drawn hold one piece: the candidate, or nothing
extractSetterCallerName(utmCampaign) ==
  IF isValidSetterCallerName(trim(utmCampaign)) THEN trim(utmCampaign)
  ELSE <<>>

\* the rows of Vanzari of the current month
SetterCallerSales ==
  UNION {[1..n -> [utmCampaign : {<<>>,
                                  <<"O", "p", "R", "e", "s", "c", "u">>,
                                  <<"O", "p", "R", "e", "s", "c">>,
                                  <<"o", "p", "r", "e", "s", "c", "u">>},
                   project : {"P1", "P2", ""},
                   setterCallerCommission : {0, 4, 300000}]] :
           n \in 0..MaxSales}

\* the rows with a Utm Campaign and a positive commission
getSetterCallerSales(rows) ==
  SelectSeq(rows, LAMBDA row : /\ row.utmCampaign # <<>>
                               /\ row.setterCallerCommission > 0)

NoLookupResult == [name |-> <<>>, role |-> ""]

\* one pass of the loop of groupSalesBySetterCallerAndProject over `sale`:
\* the name cache and the groups after it
GroupSale(directory, nameCache, groups, sale) ==
  LET nameCandidate == extractSetterCallerName(sale.utmCampaign)
      cacheKey == toLowerCase(nameCandidate)
      cached == {c \in nameCache : c.key = cacheKey}
      allRepresentatives ==
        SelectSeq(directory, LAMBDA rep : /\ rep.name # <<>>
                                          /\ rep.role \in {"Caller", "Setter"})
      match == findRepresentativeByFuzzyName(directory, nameCandidate)
      lookupResult ==
        IF cached # {} THEN (CHOOSE c \in cached : TRUE).result
        ELSE IF match = 0 THEN NoLookupResult
        ELSE [name |-> allRepresentatives[match].name,
              role |-> allRepresentatives[match].role]
      key == <<lookupResult.name, sale.project, lookupResult.role>>
      Key(g) == <<g.name, g.project, g.role>>
      present == \E i \in 1..Len(groups) : Key(groups[i]) = key
      added == IF present THEN groups
               ELSE Append(groups, [name |-> lookupResult.name,
                                    project |-> sale.project,
                                    role |-> lookupResult.role,
                                    totalCommission |-> 0, salesCount |-> 0])
  IN  IF ~isValidProject(sale.project) \/ sale.setterCallerCommission <= 0
           \/ nameCandidate = <<>>
        THEN [nameCache |-> nameCache, groups |-> groups]
      ELSE
        [nameCache |-> nameCache \cup
                         {[key |-> cacheKey, result |-> lookupResult]},
         groups |->
           IF lookupResult = NoLookupResult THEN groups
           ELSE [i \in 1..Len(added) |->
                   IF Key(added[i]) = key
                     THEN [added[i] EXCEPT
                             !.totalCommission = @ + sale.setterCallerCommission,
                             !.salesCount = @ + 1]
                     ELSE added[i]]]

\* the record processSetterCallerGroup writes for a group, as a sequence of
\* at most one upsert
processSetterCallerGroup(name, project, group, month, year) ==
  LET roundedCommission == RoundDiv(group.totalCommission, 10)
      category == IF group.role = "Caller" THEN EXPENSE_CATEGORIES.CALLER
                  ELSE EXPENSE_CATEGORIES.SETTER
      expenseId == <<"setter_caller", name, project,
                     CASE month = "Octombrie" -> "octombrie" [] OTHER -> month>>
  IN  IF ~isValidProject(project) \/ ~isValidExpenseAmount(group.totalCommission)
           \/ group.role = ""
        THEN <<>>
      ELSE <<[rec |-> Expense(expenseId, Description(name, month, 0, 0), project,
                              category, roundedCommission, month, year)]>>

InitSetterCaller ==
  /\ Standalone
  /\ expenses = <<>>
  /\ pnl = <<>>
  /\ sales = InitSales
  /\ commissions = InitCommissions
  /\ \E directory \in {d \in Directories : Len(d) <= 2},
        rows \in SetterCallerSales :
       calc = [op |-> "groupSalesBySetterCallerAndProject",
               directory |-> directory,
               sales |-> getSetterCallerSales(rows), nameCache |-> {},
               groups |-> <<>>, edits |-> 0]

\* the next sale of the loop: its lookup reads the directory as it is now
GroupNextSale ==
  /\ calc.op = "groupSalesBySetterCallerAndProject"
  /\ calc.sales # <<>>
  /\ LET after == GroupSale(calc.directory, calc.nameCache, calc.groups,
                            Head(calc.sales))
     IN  calc' = [calc EXCEPT !.sales = Tail(@),
                              !.nameCache = after.nameCache,
                              !.groups = after.groups]
  /\ UNCHANGED <<sales, commissions, expenses, pnl, runs, starts, fails,
                 changes, baseline, limits>>

\* somebody changes the Rol of a directory entry while the run is grouping
EditRole ==
  /\ calc.op = "groupSalesBySetterCallerAndProject"
  /\ calc.edits < MaxEdits
  /\ \E i \in 1..Len(calc.directory), role \in {"Caller", "Setter"} :
       /\ calc.directory[i].role # role
       /\ calc' = [calc EXCEPT !.directory[i].role = role, !.edits = @ + 1]
  /\ UNCHANGED <<sales, commissions, expenses, pnl, runs, starts, fails,
                 changes, baseline, limits>>

\* the loop of processSetterCallerCommissions over the groups, every call
\* to the record store succeeding
ProcessGroups ==
  /\ calc.op = "groupSalesBySetterCallerAndProject"
  /\ calc.sales = <<>>
  /\ LET items ==
           Flatten([i \in 1..Len(calc.groups) |->
                      processSetterCallerGroup(calc.groups[i].name,
                                               calc.groups[i].project,
                                               calc.groups[i], CurrentMonth,
                                               CurrentYear)])
     IN  /\ expenses' = UpsertExpenses(expenses, items)
         /\ calc' = [calc EXCEPT !.op = "processSetterCallerCommissions"]
  /\ UNCHANGED <<sales, commissions, pnl, runs, starts, fails, changes,
                 baseline, limits>>

NextSetterCaller == GroupNextSale \/ EditRole \/ ProcessGroups

SpecSetterCaller == InitSetterCaller /\ [][NextSetterCaller]_vars

\* the expense records that hold the amount of group g under its category
RecordsOf(g) ==
  {i \in 1..Len(expenses) :
     /\ expenses[i].description.text = g.name
     /\ expenses[i].project = g.project
     /\ expenses[i].category = (IF g.role = "Caller"
                                  THEN EXPENSE_CATEGORIES.CALLER
                                  ELSE EXPENSE_CATEGORIES.SETTER)
     /\ expenses[i].amount = RoundDiv(g.totalCommission, 10)}

\* C27: two groups of the same resolved payee and project under two roles
\* are not merged: after the run each group's amount is in an expense record
\* of its own.
C27_RolesKeptApart ==
  calc.op = "processSetterCallerCommissions"
    => \A a, b \in 1..Len(calc.groups) :
         LET g == calc.groups[a]
             h == calc.groups[b]
         IN  (g.name = h.name /\ g.project = h.project /\ g.role # h.role)
               => /\ RecordsOf(g) # {}
                  /\ RecordsOf(h) # {}
                  /\ RecordsOf(g) \cap RecordsOf(h) = {}

\* C28: every expense record an allocation writes has a strictly positive
\* amount: a group whose rounded amount is zero or negative is skipped, and
\* the allocation loop writes no record for it.
C28_WrittenAmountPositive ==
  calc.op = "allocated"
    => \A i \in 1..Len(calc.allocations) : calc.allocations[i] > 0

(***************************************************************************)
(* Pacing of the requests to the record store                              *)
(***************************************************************************)
\* Times are in milliseconds.  The invocations share the module variable
\* lastRequestTime: a cron run and a webhook run that overlap.  A request is
\* logged with its start time, its caller, and whether it passed the gate.
RATE_LIMIT_DELAY == 250

MaxTicks == 6
MaxRequests == 3

\* no timer is pending for the caller
NoTimer == -1

\* Date.now() is far above the initial lastRequestTime of 0
InitPacing ==
  /\ Standalone
  /\ expenses = <<>>
  /\ pnl = <<>>
  /\ sales = InitSales
  /\ commissions = InitCommissions
  /\ calc = [op |-> "pacing", now |-> 4 * RATE_LIMIT_DELAY,
             lastRequestTime |-> 0, timer |-> [p \in RunIds |-> NoTimer],
             requests |-> <<>>, ticks |-> 0]

\* waitForRateLimit up to its await, or to its end when it does not wait;
\* retryWithBackoff then starts the request
waitForRateLimit(p) ==
  /\ calc.timer[p] = NoTimer
  /\ Len(calc.requests) < MaxRequests
  /\ LET timeSinceLastRequest == calc.now - calc.lastRequestTime
     IN  calc' =
           IF timeSinceLastRequest < RATE_LIMIT_DELAY
             THEN [calc EXCEPT !.timer[p] = calc.now + RATE_LIMIT_DELAY
                                              - timeSinceLastRequest]
             ELSE [calc EXCEPT !.lastRequestTime = calc.now,
                               !.requests = Append(@, [at |-> calc.now, by |-> p, gated |-> TRUE])]
  /\ UNCHANGED <<sales, commissions, expenses, pnl, runs, starts, fails,
                 changes, baseline, limits>>

\* the timer of the await fires, no earlier than asked: the rest of
\* waitForRateLimit, and the request
TimerFires(p) ==
  /\ calc.timer[p] # NoTimer
  /\ calc.now >= calc.timer[p]
  /\ calc' = [calc EXCEPT !.timer[p] = NoTimer,
                          !.lastRequestTime = calc.now,
                          !.requests = Append(@, [at |-> calc.now, by |-> p, gated |-> TRUE])]
  /\ UNCHANGED <<sales, commissions, expenses, pnl, runs, starts, fails,
                 changes, baseline, limits>>

\* getStripePayments: base(TABLES.SALES).select(...) called as it is
UngatedSelect(p) ==
  /\ calc.timer[p] = NoTimer
  /\ Len(calc.requests) < MaxRequests
  /\ calc' = [calc EXCEPT !.requests = Append(@, [at |-> calc.now, by |-> p,
                                               gated |-> FALSE])]
  /\ UNCHANGED <<sales, commissions, expenses, pnl, runs, starts, fails,
                 changes, baseline, limits>>

\* time passes
Tick ==
  /\ calc.ticks < MaxTicks
  /\ calc' = [calc EXCEPT !.now = @ + RATE_LIMIT_DELAY \div 5, !.ticks = @ + 1]
  /\ UNCHANGED <<sales, commissions, expenses, pnl, runs, starts, fails,
                 changes, baseline, limits>>

NextPacing ==
  \/ \E p \in RunIds : waitForRateLimit(p)
  \/ \E p \in RunIds : TimerFires(p)
  \/ \E p \in RunIds : UngatedSelect(p)
  \/ Tick

SpecPacing == InitPacing /\ [][NextPacing]_vars

\* C29: any two requests to the record store start at least 250 ms apart,
\* whichever caller starts them and whichever table they address.
C29_RequestsPaced ==
  calc.op = "pacing"
    => \A i, j \in 1..Len(calc.requests) :
         i < j => calc.requests[j].at - calc.requests[i].at >= RATE_LIMIT_DELAY

(***************************************************************************)
(* Debts of a payee over successive periods                                *)
(***************************************************************************)
\* the debt c0 of Septembrie and the payee's commissions c1 of Octombrie and
\* c2 of Noiembrie, each with linked sales
InitDebts ==
  /\ Standalone
  /\ expenses = <<>>
  /\ pnl = <<>>
  /\ sales = InitSales
  /\ \E d \in DebtAmounts, f \in CommissionAmounts, g \in CommissionAmounts :
       commissions =
         [c \in {"c0", "c1", "c2"} |->
            CASE c = "c0" -> [InitCommissions[c] EXCEPT !.finalCommission = d]
              [] c = "c1" -> [InitCommissions[c] EXCEPT !.finalCommission = f]
              [] c = "c2" -> [InitCommissions[c] EXCEPT !.finalCommission = g,
                                                        !.sales = {"s1"}]]
  /\ calc = [op |-> "processSalesRepCommissions",
             todo |-> <<"Octombrie", "Noiembrie">>, done |-> <<>>]

\* the sales-rep run of the next period, every call succeeding: each record
\* of the period is processed and what it yields is written
ProcessPeriod ==
  /\ calc.op = "processSalesRepCommissions"
  /\ calc.todo # <<>>
  /\ LET month == Head(calc.todo)
         found == getMonthlyCommissions(month)
         debts(c) == DebtsRead(c, month, {})
         result(c) == processSalesRepCommission(c, month, CurrentYear, debts(c),
                                                FALSE, FALSE)
     IN  /\ calc' = [calc EXCEPT
                       !.todo = Tail(@),
                       !.done = @ \o [i \in 1..Len(found) |->
                                        [commission |-> found[i],
                                         debts |-> debts(found[i]),
                                         written |-> result(found[i]).items # <<>>,
                                         netCommission |->
                                           NetCommission(found[i],
                                                         debts(found[i]))]]]
         /\ expenses' =
              UpsertExpenses(expenses,
                             Flatten([i \in 1..Len(found) |->
                                        result(found[i]).items]))
  /\ UNCHANGED <<sales, commissions, pnl, runs, starts, fails, changes,
                 baseline, limits>>

SpecDebts == InitDebts /\ [][ProcessPeriod]_vars

\* what the processed commission p paid less on account of the debt record d:
\* the whole debt when an expense was written for the net commission, the
\* whole commission when d alone brought the net commission to zero or below
DeductedFor(d, p) ==
  IF \A i \in 1..Len(p.debts) : p.debts[i] # d THEN 0
  ELSE IF p.written THEN Abs(commissions[d].finalCommission)
  ELSE IF p.debts = <<d>> THEN commissions[p.commission].finalCommission
  ELSE 0

\* C30: over the periods processed, the total deducted from a payee's
\* commissions on account of one negative commission record is at most the
\* absolute value of that record.
C30_DebtDeductedOnce ==
  calc.op = "processSalesRepCommissions"
    => \A d \in DOMAIN commissions :
         commissions[d].finalCommission < 0
           => SumSeq([i \in 1..Len(calc.done) |-> DeductedFor(d, calc.done[i])])
                <= Abs(commissions[d].finalCommission)

==============================================================================
